---- MODULE Spec2Model ----
(***************************************************************************)
(* Streaming annotation engine of the DeepSeek-OCR client (renderer.js):   *)
(* parseBoxesFromTokens, renderBoxes and the performOCR poll/settle loop,  *)
(* together with the handlers that share its state.                        *)
(*                                                                         *)
(* Text model.  A raw text is a sequence of symbols.  The four markers     *)
(* <|ref|>, <|/ref|>, <|det|>, <|/det|> are single symbols; "[", "]", ",", *)
(* " ", "<" and the digits are single characters; every other symbol is a  *)
(* word of letters (no whitespace, no "<", no "]", no "," and no digit).   *)
(***************************************************************************)
EXTENDS Integers, Sequences, FiniteSets, TLC

\* ------------------------------------------------------------------ bounds
MaxPieces == 3      \* pieces per raw text handed to the parser harness
MaxDocPieces == 2   \* pieces per document the backend streams
MaxOps == 2         \* performOCR invocations followed in one behaviour
MaxPolls == 1       \* /progress responses in flight at once
MaxGroups == 2      \* overlay size up to which the render harness calls
MaxCalls == 3       \* successive parseBoxesFromTokens calls that are logged
MaxLabelLen == 3    \* symbols per label of the label harness

\* --------------------------------------------------------------- constants
DEEPSEEK_COORD_MAX == 999

KNOWN_TYPES ==
    {"title", "sub_title", "text", "table", "image", "image_caption",
     "figure", "caption", "formula", "list"}

NULL == "null"

\* parseFloat's NaN; the numerals of the text model are never negative
NaN == -1

REF == "<|ref|>"
EREF == "<|/ref|>"
DET == "<|det|>"
EDET == "<|/det|>"

\* symbols whose first character is "<" (excluded by [^<])
LtSyms == {REF, EREF, DET, EDET, "<"}

Digits == {"0", "1", "2", "3", "4", "5", "6", "7", "8", "9"}

DigitVal(c) ==
    CASE c = "0" -> 0 [] c = "1" -> 1 [] c = "2" -> 2 [] c = "3" -> 3
      [] c = "4" -> 4 [] c = "5" -> 5 [] c = "6" -> 6 [] c = "7" -> 7
      [] c = "8" -> 8 [] c = "9" -> 9

\* ------------------------------------------------------- string primitives
\* String.prototype.substring(a, b) with 0-based a <= b
substring(t, a, b) == SubSeq(t, a + 1, b)

RECURSIVE SkipSpaces(_, _)
SkipSpaces(t, i) ==
    IF i <= Len(t) /\ t[i] = " " THEN SkipSpaces(t, i + 1) ELSE i

RECURSIVE SkipSpacesBack(_, _)
SkipSpacesBack(t, j) ==
    IF j >= 1 /\ t[j] = " " THEN SkipSpacesBack(t, j - 1) ELSE j

\* String.prototype.trim()
trim(t) ==
    LET i == SkipSpaces(t, 1)
        j == SkipSpacesBack(t, Len(t))
    IN  IF i > j THEN << >> ELSE SubSeq(t, i, j)

\* first index >= i holding a symbol of stop, or Len(t)+1: the end of a
\* greedy negated character class
RECURSIVE SkipNot(_, _, _)
SkipNot(t, i, stop) ==
    IF i > Len(t) \/ t[i] \in stop THEN i ELSE SkipNot(t, i + 1, stop)

\* String.prototype.split(',')
RECURSIVE split(_)
split(t) ==
    LET c == SkipNot(t, 1, {","})
    IN  IF c > Len(t) THEN << t >>
        ELSE << SubSeq(t, 1, c - 1) >> \o split(SubSeq(t, c + 1, Len(t)))

RECURSIVE DigitsValue(_, _, _)
DigitsValue(t, i, acc) ==
    IF i <= Len(t) /\ t[i] \in Digits
    THEN DigitsValue(t, i + 1, acc * 10 + DigitVal(t[i]))
    ELSE acc

\* parseFloat: skips leading white space, reads the longest numeric prefix
parseFloat(t) ==
    LET i == SkipSpaces(t, 1)
    IN  IF i <= Len(t) /\ t[i] \in Digits THEN DigitsValue(t, i, 0) ELSE NaN

\* s.split(',').map(s => parseFloat(s.trim())).filter(n => !isNaN(n))
parseCoords(cs) ==
    LET fields == split(cs)
        nums == [k \in 1..Len(fields) |-> parseFloat(trim(fields[k]))]
    IN  SelectSeq(nums, LAMBDA n : n # NaN)

\* ------------------------------------------------------------- the regex
\* One attempt of refDetRegex at 1-based position p:
\*   <|ref|>([^<]+)<|/ref|><|det|>[[([^\]]+)]]<|/det|>
\* Both character classes are followed by a symbol they exclude, so the
\* greedy run is the only candidate.
NoMatch == [ok |-> FALSE, content |-> << >>, coords |-> << >>,
            matchStart |-> 0, matchEnd |-> 0]

\* a plausible slip: the pattern ends at "]]" and does not ask for <|/det|>
MatchAt_acceptsUnclosed(t, p) ==
    LET le == SkipNot(t, p + 1, LtSyms)
        cs == le + 4
        ce == SkipNot(t, cs, {"]"})
    IN  IF /\ p <= Len(t) /\ t[p] = REF
           /\ le > p + 1
           /\ le + 3 <= Len(t)
           /\ t[le] = EREF /\ t[le + 1] = DET
           /\ t[le + 2] = "[" /\ t[le + 3] = "["
           /\ ce > cs
           /\ ce + 1 <= Len(t)
           /\ t[ce] = "]" /\ t[ce + 1] = "]"
        THEN [ok |-> TRUE,
              content |-> trim(SubSeq(t, p + 1, le - 1)),
              coords |-> SubSeq(t, cs, ce - 1),
              matchStart |-> p - 1,
              matchEnd |-> ce + 1]
        ELSE NoMatch

MatchAt(t, p) ==
    LET le == SkipNot(t, p + 1, LtSyms)
        cs == le + 4
        ce == SkipNot(t, cs, {"]"})
    IN  IF /\ p <= Len(t) /\ t[p] = REF
           /\ le > p + 1
           /\ le + 3 <= Len(t)
           /\ t[le] = EREF /\ t[le + 1] = DET
           /\ t[le + 2] = "[" /\ t[le + 3] = "["
           /\ ce > cs
           /\ ce + 2 <= Len(t)
           /\ t[ce] = "]" /\ t[ce + 1] = "]" /\ t[ce + 2] = EDET
        THEN [ok |-> TRUE,
              content |-> trim(SubSeq(t, p + 1, le - 1)),
              coords |-> SubSeq(t, cs, ce - 1),
              matchStart |-> p - 1,
              matchEnd |-> ce + 2]
        ELSE NoMatch

\* while ((match = refDetRegex.exec(tokenText)) !== null) matches.push(...)
RECURSIVE collectMatches(_, _)
collectMatches(t, from) ==
    IF from > Len(t) THEN << >>
    ELSE LET m == MatchAt(t, from)
         IN  IF m.ok
             THEN << m >> \o collectMatches(t, m.matchEnd + 1)
             ELSE collectMatches(t, from + 1)

\* KNOWN_TYPES.includes(content): a label is a known type when it is the
\* single word naming it
\* a plausible slip: a label that contains a known type counts as one
includesKnown_anyWord(content) ==
    \E k \in 1..Len(content) : content[k] \in KNOWN_TYPES

includesKnown(content) == Len(content) = 1 /\ content[1] \in KNOWN_TYPES

\* a plausible slip: records with extra coordinates are accepted too
acceptMatch_atLeastFour(m) == Len(parseCoords(m.coords)) >= 4

\* the coords.length === 4 test of the loop body
acceptMatch(m) == Len(parseCoords(m.coords)) = 4

\* textContent of matches[i]: the text up to the next match, or to the end
\* of the text for the last match, trimmed
trailingOf(t, matches, i) ==
    IF i < Len(matches)
    THEN trim(substring(t, matches[i].matchEnd, matches[i + 1].matchStart))
    ELSE trim(substring(t, matches[i].matchEnd, Len(t)))

\* a plausible slip: the last box is complete as soon as text follows it
completeOf_ignoresStreamEnd(t, matches, i, isOcrComplete) ==
    Len(trailingOf(t, matches, i)) > 0

\* a plausible slip: every box waits for the end of the stream
completeOf_needsStreamEnd(t, matches, i, isOcrComplete) ==
    isOcrComplete /\ Len(trailingOf(t, matches, i)) > 0

\* isComplete of matches[i]
completeOf(t, matches, i, isOcrComplete) ==
    IF i < Len(matches)
    THEN Len(trailingOf(t, matches, i)) > 0
    ELSE isOcrComplete /\ Len(trailingOf(t, matches, i)) > 0

\* a plausible slip: a label counts as a type only once text follows it
boxOf_typeWhenFollowed(t, matches, i, isOcrComplete) ==
    LET m == matches[i]
        coords == parseCoords(m.coords)
        isType == /\ includesKnown(m.content)
                  /\ Len(trailingOf(t, matches, i)) > 0
    IN  [content |-> m.content,
         textContent |-> trailingOf(t, matches, i),
         isType |-> isType,
         type |-> IF isType THEN m.content[1] ELSE "text",
         x1 |-> coords[1], y1 |-> coords[2],
         x2 |-> coords[3], y2 |-> coords[4],
         isComplete |-> completeOf(t, matches, i, isOcrComplete)]

\* the body of the for loop for matches[i]: the box pushed for an accepted
\* match
boxOf(t, matches, i, isOcrComplete) ==
    LET m == matches[i]
        coords == parseCoords(m.coords)
        isType == includesKnown(m.content)
    IN  [content |-> m.content,
         textContent |-> trailingOf(t, matches, i),
         isType |-> isType,
         type |-> IF isType THEN m.content[1] ELSE "text",
         x1 |-> coords[1], y1 |-> coords[2],
         x2 |-> coords[3], y2 |-> coords[4],
         isComplete |-> completeOf(t, matches, i, isOcrComplete)]

RECURSIVE boxesFrom(_, _, _, _)
boxesFrom(t, matches, i, isOcrComplete) ==
    IF i > Len(matches) THEN << >>
    ELSE (IF acceptMatch(matches[i])
          THEN << boxOf(t, matches, i, isOcrComplete) >>
          ELSE << >>)
         \o boxesFrom(t, matches, i + 1, isOcrComplete)

parseBoxesFromTokens(tokenText, isOcrComplete) ==
    boxesFrom(tokenText, collectMatches(tokenText, 1), 1, isOcrComplete)


\* extractTextFromTokens: the labels of the non-type boxes joined by "\n"
RECURSIVE joinLines(_)
joinLines(pieces) ==
    IF Len(pieces) = 0 THEN << >>
    ELSE IF Len(pieces) = 1 THEN pieces[1]
    ELSE pieces[1] \o << "\n" >> \o joinLines(Tail(pieces))

extractTextFromTokens(tokenText) ==
    LET boxes == parseBoxesFromTokens(tokenText, FALSE)
        textBoxes == SelectSeq(boxes, LAMBDA b : ~b.isType)
    IN  joinLines([k \in 1..Len(textBoxes) |-> textBoxes[k].content])

\* ------------------------------------------------------------ the overlay
TYPE_COLORS ==
    [title |-> "#8B5CF6",
     sub_title |-> "#A78BFA",
     text |-> "#3B82F6",
     table |-> "#F59E0B",
     image |-> "#EC4899",
     figure |-> "#06B6D4",
     caption |-> "#10B981",
     image_caption |-> "#4EC483",
     formula |-> "#EF4444",
     list |-> "#6366F1"]

\* a plausible slip: in document mode a type box is clickable as soon as it
\* has text after it, final or not
clickableOf_beforeFinal(box, promptType) ==
    LET isInteractive == promptType \in {"ocr", "document"}
    IN  IF promptType = "ocr" THEN ~box.isType /\ isInteractive
        ELSE IF promptType = "document"
             THEN /\ box.isType /\ Len(box.textContent) > 0 /\ isInteractive
             ELSE FALSE

\* a plausible slip: in ocr mode every box is clickable
clickableOf_typesInOcr(box, promptType) ==
    LET isInteractive == promptType \in {"ocr", "document"}
    IN  IF promptType = "ocr" THEN isInteractive
        ELSE IF promptType = "document"
             THEN /\ box.isType /\ box.isComplete
                  /\ Len(box.textContent) > 0 /\ isInteractive
             ELSE FALSE

\* isClickable of renderBoxes, with isInteractive of its line 516
clickableOf(box, promptType) ==
    LET isInteractive == promptType \in {"ocr", "document"}
    IN  IF promptType = "ocr" THEN ~box.isType /\ isInteractive
        ELSE IF promptType = "document"
             THEN /\ box.isType /\ box.isComplete
                  /\ Len(box.textContent) > 0 /\ isInteractive
             ELSE FALSE

\* the <g> element built for one box.  Pixel coordinates are kept as the
\* numerator over DEEPSEEK_COORD_MAX: x = (box.x1 / 999) * imageWidth.
\* a projection that clamps the normalized coordinates to 0..999
clampCoord(v) == IF v > DEEPSEEK_COORD_MAX THEN DEEPSEEK_COORD_MAX ELSE v

boxGroup_clamped(box, index, imageWidth, imageHeight, promptType) ==
    LET isClickable == clickableOf(box, promptType)
    IN  [index |-> index,
         x |-> clampCoord(box.x1) * imageWidth,
         y |-> clampCoord(box.y1) * imageHeight,
         width |-> (clampCoord(box.x2) - clampCoord(box.x1)) * imageWidth,
         height |-> (clampCoord(box.y2) - clampCoord(box.y1)) * imageHeight,
         w |-> imageWidth,
         h |-> imageHeight,
         color |-> TYPE_COLORS[box.type],
         fill |-> TYPE_COLORS[box.type],
         label |-> IF box.isType THEN << box.type >> ELSE box.content,
         isClickable |-> isClickable,
         copyText |-> << >>,
         dimmed |-> FALSE]

boxGroup(box, index, imageWidth, imageHeight, promptType) ==
    LET isUnknownType == box.type \notin DOMAIN TYPE_COLORS
        isClickable == clickableOf(box, promptType)
        copyText ==
            IF promptType = "ocr" THEN box.content
            ELSE IF promptType = "document" THEN box.textContent
                 ELSE << >>
    IN  [index |-> index,
         x |-> box.x1 * imageWidth,
         y |-> box.y1 * imageHeight,
         width |-> (box.x2 - box.x1) * imageWidth,
         height |-> (box.y2 - box.y1) * imageHeight,
         w |-> imageWidth,
         h |-> imageHeight,
         color |-> IF isUnknownType THEN "#FF1493" ELSE TYPE_COLORS[box.type],
         fill |-> IF isUnknownType THEN "#00FF00" ELSE TYPE_COLORS[box.type],
         label |-> IF box.isType THEN << box.type >> ELSE box.content,
         isClickable |-> isClickable,
         copyText |-> IF isClickable THEN copyText ELSE << >>,
         dimmed |-> /\ ~isClickable /\ box.isType
                    /\ promptType = "document" /\ ~box.isComplete]

\* a slice that starts again from the first box
sliceFrom_fromZero(boxes, lastCount) ==
    [k \in 1..Len(boxes) |-> k - 1]

\* boxes.slice(lastBoxCount): the 0-based indices that are drawn
sliceFrom(boxes, lastCount) ==
    IF lastCount >= Len(boxes) THEN << >>
    ELSE [k \in 1..(Len(boxes) - lastCount) |-> lastCount + k - 1]

\* renderBoxes past its first test: the viewBox is set if absent, the boxes
\* from the cursor on are drawn and the cursor moves to the end of the list
drawBoxes(dom, boxes, imageWidth, imageHeight, promptType) ==
    LET newIdx == sliceFrom(boxes, dom.lastBoxCount)
    IN  [overlay |-> dom.overlay \o
             [k \in 1..Len(newIdx) |->
                 boxGroup(boxes[newIdx[k] + 1], newIdx[k],
                          imageWidth, imageHeight, promptType)],
         viewBox |-> IF dom.viewBox = << >>
                     THEN << imageWidth, imageHeight >>
                     ELSE dom.viewBox,
         lastBoxCount |-> Len(boxes)]

\* a renderBoxes that does not return early on an empty list
renderBoxes_drawsEmptyList(dom, boxes, imageWidth, imageHeight, promptType) ==
    IF imageWidth = 0 \/ imageHeight = 0 THEN dom
    ELSE drawBoxes(dom, boxes, imageWidth, imageHeight, promptType)

\* renderBoxes on the DOM state dom = [overlay, viewBox, lastBoxCount]
renderBoxes(dom, boxes, imageWidth, imageHeight, promptType) ==
    IF imageWidth = 0 \/ imageHeight = 0 \/ Len(boxes) = 0 THEN dom
    ELSE drawBoxes(dom, boxes, imageWidth, imageHeight, promptType)


\* ------------------------------------------------------------- raw texts
\* a complete record <|ref|>label<|/ref|><|det|>[[coords]]<|/det|>
Rec(label, coords) ==
    << REF >> \o label \o << EREF, DET, "[", "[" >> \o coords
              \o << "]", "]", EDET >>

Coords4 == << "0", ",", "0", ",", "1", "0", ",", "1", "0" >>
Coords4Spaced == << "0", ",", " ", "0", ",", " ", "2", "0", ",", " ", "2", "0" >>
Coords3 == << "1", ",", "2", ",", "3" >>
Coords5Junk == << "1", ",", "x", ",", "2", ",", "3", ",", "4" >>
CoordsWord == << "1", ",", "2", ",", "x", ",", "4" >>

RecTitle == Rec(<< "title" >>, Coords4)
RecHello == Rec(<< " ", "Hello", " " >>, Coords4Spaced)

\* the pieces raw texts of the parser harness are concatenated from
ParsePieces ==
    { RecTitle,
      RecHello,
      Rec(<< "text" >>, Coords3),
      Rec(<< "World" >>, Coords5Junk),
      Rec(<< "list" >>, CoordsWord),
      << "FOO" >>,
      << " " >>,
      << REF, "title", EREF, DET, "[", "[", "1", ",", "2" >> }

RECURSIVE Flatten(_)
Flatten(pieces) ==
    IF Len(pieces) = 0 THEN << >> ELSE pieces[1] \o Flatten(Tail(pieces))

PiecesUpTo(S, n) == UNION { [1..k -> S] : k \in 0..n }

ParseTexts == { Flatten(ps) : ps \in PiecesUpTo(ParsePieces, MaxPieces) }

\* the texts handed to the parser: every text of ParseTexts cut off at every
\* position, as a stream read before its end is
ParseInputs ==
    UNION { { SubSeq(t, 1, k) : k \in 0..Len(t) } : t \in ParseTexts }

Images == { "a.png", "b.png" }

\* the token stream the backend produces for an image, piece by piece: the
\* first MaxDocPieces pieces of the image's document
MasterDoc(img) ==
    IF img = "a.png"
    THEN << RecTitle \o << "FOO" >>, RecHello \o << "BAR" >>, RecTitle,
            << "FOO" >> >>
    ELSE << << "FOO" >>, RecHello \o << " " >>, RecTitle \o << "BAR" >>,
            RecHello >>

docOf(img) == SubSeq(MasterDoc(img), 1, MaxDocPieces)

\* naturalWidth / naturalHeight of the decoded image
naturalWidth(img) == IF img = "a.png" THEN 100 ELSE 200
naturalHeight(img) == IF img = "a.png" THEN 50 ELSE 200

PromptTypes == { "ocr", "document", "free" }

\* result.data.result of the backend for a finished document
resultOf(text) == << "#result" >> \o text


\* ------------------------------------------------------------------ state
VARIABLES
    currentImagePath,   \* let currentImagePath
    currentResultText,  \* let currentResultText (<< >> when null)
    currentRawTokens,   \* let currentRawTokens (<< >> when null or empty)
    currentPromptType,  \* let currentPromptType
    isProcessing,       \* let isProcessing
    lastBoxCount,       \* let lastBoxCount
    overlay,            \* children of #ocr-boxes-overlay, in document order
    viewBox,            \* its viewBox attribute, << >> when absent
    resultsContent,     \* #results-content
    ocrPreviewSrc,      \* #ocr-preview-image src, "" when reset
    ocr,                \* the running performOCR invocation
    timers,             \* active token-poll intervals, one closure each
    polls,              \* /progress fetches of the token poll in flight
    srv,                \* the backend: status and token stream
    reply,              \* answer of the perform-ocr invoke, not yet delivered
    lm,                 \* loadModel: position, timers, progress display
    pdf,                \* position of performPDFOCR
    btn,                \* #ocr-btn and #load-model-btn
    checks,             \* check-server-status invokes not yet answered
    progressStatus,     \* text of #progress-status
    mainProc,           \* the main process: app lifecycle, startPythonServer
    batch,              \* position of performBatchOCRWithPaths
    opCount,            \* epoch: performOCR invocations that set the flag
    stage,              \* StreamState.stage of the current operation
    grow,               \* texts rendered since the overlay was last cleared
    pText,              \* parser harness: raw text
    pEnded,             \* parser harness: isOcrComplete
    pBoxes,             \* parser harness: returned boxes
    pDone,              \* parser harness: the call has returned
    rCall,              \* render harness: arguments of the last renderBoxes
    pLog                \* repeated-call harness: the calls made, in order

globalVars == << currentImagePath, currentResultText, currentRawTokens,
                 currentPromptType, isProcessing, lastBoxCount >>
domVars == << overlay, viewBox, resultsContent, ocrPreviewSrc >>
procVars == << ocr, timers, polls, lm, pdf, batch >>
envVars == << srv, reply >>
ghostVars == << opCount, stage, grow >>
harnessVars == << pText, pEnded, pBoxes, pDone, rCall, pLog >>
uiVars == << btn, checks, progressStatus >>
programVars == << globalVars, domVars, procVars, envVars >>
vars == << globalVars, domVars, procVars, envVars, ghostVars, harnessVars,
          uiVars, mainProc >>

EmptyPanel == [kind |-> "empty", text |-> << >>]
TextPanel(t) == [kind |-> "text", text |-> t]
MarkdownPanel(t) == [kind |-> "markdown", text |-> t]
ErrorPanel == [kind |-> "error", text |-> << >>]

NoReply == [kind |-> "none", raw_tokens |-> << >>, prompt_type |-> NULL,
            result |-> << >>]

IdleOcr == [pc |-> "idle", w |-> 0, h |-> 0, sent |-> NULL]

IdleSrv == [status |-> "idle", doc |-> << >>, pos |-> 0]

\* the model progress display: width of #progress-bar in percent, text of
\* #progress-stage, number shown in #progress-percent
NoBar == [width |-> 0, stage |-> "", percent |-> 0]

\* the Run OCR button (disabled, text of #ocr-btn-text) and the Load Model
\* button (disabled, text) before any handler has run
InitBtn == [ocrDisabled |-> TRUE, ocrText |-> "Run OCR",
            loadDisabled |-> FALSE, loadText |-> "Load Model"]

\* a text of #progress-status: fixed words and, where the text has one, the
\* number in front of them
ProgressText(words, n) == [text |-> words, chars |-> n]

\* loadModel at rest: position, its two interval timers, the answer of the
\* load-model invoke, the /progress fetches of its timers that are pending,
\* the progress display it writes and the number of invocations so far
IdleLm == [pc |-> "idle", pollInterval |-> FALSE, checkStatus |-> FALSE,
           reply |-> "none", fetches |-> {}, bar |-> NoBar, n |-> 0]

\* no text rendered since the overlay was cleared
NoGrow == [text |-> << >>, ok |-> TRUE]

IsPrefix(a, b) == Len(a) <= Len(b) /\ SubSeq(b, 1, Len(a)) = a

\* the record of rendered texts after one more renderBoxes call on text t:
\* ok while every text passed so far extended the one before it
Grown(g, t) == [text |-> t, ok |-> g.ok /\ IsPrefix(g.text, t)]

\* the token stream the backend has produced so far
streamOf(s) == Flatten(SubSeq(s.doc, 1, s.pos))

\* -------------------------------------------------- the main process
\* main.js: let mainWindow, let pythonProcess, the promise of
\* startPythonServer with its closure variables (resolved, startTime and the
\* pending setTimeout or health request of checkWithRetry), and the
\* 'activate' handler; times in seconds
maxWaitTime == 30
checkInterval == 1
initialDelay == 2
MaxElapsed == 32    \* seconds of startup followed

OutputReady == [kind |-> "output", text |-> "Running on"]
OutputOther == [kind |-> "output", text |-> "other"]
HealthReplies == { [kind |-> "health", text |-> "ok"],
                   [kind |-> "health", text |-> "error"],
                   [kind |-> "health", text |-> "throw"] }
NothingSeen == [kind |-> "none", text |-> ""]

\* before app.whenReady() resolves
StartMain(isDarwin) ==
    [app |-> "launching", darwin |-> isDarwin, promise |-> "none",
     resolved |-> FALSE, resolves |-> 0, rejects |-> 0,
     pythonProcess |-> NULL, elapsed |-> 0, retry |-> "none", due |-> 0,
     seen |-> NothingSeen, mainWindow |-> NULL, activate |-> FALSE]

\* the main process while the renderer runs: the server printed
\* 'Running on', startPythonServer resolved and createWindow was called
WindowedMain ==
    [StartMain(FALSE) EXCEPT !.app = "running", !.promise = "resolved",
                             !.resolved = TRUE, !.resolves = 1,
                             !.pythonProcess = "running",
                             !.retry = "scheduled", !.due = initialDelay,
                             !.seen = OutputReady, !.mainWindow = "window",
                             !.activate = TRUE]

RendererInit ==
    /\ currentImagePath = NULL
    /\ currentResultText = << >>
    /\ currentRawTokens = << >>
    /\ currentPromptType = NULL
    /\ isProcessing = FALSE
    /\ lastBoxCount = 0
    /\ overlay = << >>
    /\ viewBox = << >>
    /\ resultsContent = EmptyPanel
    /\ ocrPreviewSrc = ""
    /\ ocr = IdleOcr
    /\ timers = {}
    /\ polls = {}
    /\ srv = IdleSrv
    /\ reply = NoReply
    /\ lm = IdleLm
    /\ pdf = "idle"
    /\ batch = "idle"
    /\ opCount = 0
    /\ stage = "Idle"
    /\ grow = NoGrow
    /\ btn = InitBtn
    /\ checks = 0
    /\ progressStatus = ProgressText("", 0)

ControllerInit == RendererInit /\ mainProc = WindowedMain

NoDom == [overlay |-> << >>, viewBox |-> << >>, lastBoxCount |-> 0]

NoCall == [called |-> FALSE, w |-> 0, h |-> 0, promptType |-> NULL,
           before |-> NoDom]

HarnessIdle ==
    /\ pText = << >>
    /\ pEnded = FALSE
    /\ pBoxes = << >>
    /\ pDone = FALSE
    /\ rCall = NoCall
    /\ pLog = << >>

Init == ControllerInit /\ HarnessIdle

\* --------------------------------------------------------------- handlers
\* loadImage(filePath), reached from selectImage and from the drop handler
loadImage(filePath) ==
    /\ currentImagePath' = filePath
    /\ ocrPreviewSrc' = ""
    /\ resultsContent' = EmptyPanel
    /\ overlay' = << >>
    /\ viewBox' = << >>
    /\ lastBoxCount' = 0
    /\ grow' = NoGrow
    /\ UNCHANGED << currentResultText, currentRawTokens, currentPromptType,
                    isProcessing, procVars, envVars, opCount, stage,
                    harnessVars, mainProc, uiVars >>

clearImage ==
    /\ currentImagePath' = NULL
    /\ currentResultText' = << >>
    /\ currentRawTokens' = << >>
    /\ currentPromptType' = NULL
    /\ ocrPreviewSrc' = ""
    /\ resultsContent' = EmptyPanel
    /\ overlay' = << >>
    /\ viewBox' = << >>
    /\ lastBoxCount' = 0
    /\ grow' = NoGrow
    /\ stage' = "Idle"
    /\ UNCHANGED << isProcessing, procVars, envVars, opCount, harnessVars, mainProc >>
    /\ btn' = [btn EXCEPT !.ocrDisabled = TRUE]
    /\ UNCHANGED << checks, progressStatus >>

\* performOCR without the isProcessing test of its first line
performOCR_start_ignoresBusy ==
    /\ currentImagePath # NULL
    /\ opCount < MaxOps
    /\ isProcessing' = TRUE
    /\ \E pt \in PromptTypes :
          /\ currentPromptType' = pt
          /\ ocr' = [pc |-> "imageLoad", w |-> 0, h |-> 0, sent |-> pt]
    /\ resultsContent' = EmptyPanel
    /\ lastBoxCount' = 0
    /\ overlay' = << >>
    /\ viewBox' = << >>
    /\ ocrPreviewSrc' = currentImagePath
    /\ opCount' = opCount + 1
    /\ stage' = "Polling"
    /\ grow' = NoGrow
    /\ UNCHANGED << currentImagePath, currentResultText, currentRawTokens,
                    timers, polls, lm, pdf, batch, envVars, harnessVars, mainProc >>
    /\ btn' = [btn EXCEPT !.ocrDisabled = TRUE, !.ocrText = "Processing..."]
    /\ progressStatus' = ProgressText("Starting OCR...", 0)
    /\ UNCHANGED checks

\* performOCR up to the await of the preview image's onload
performOCR_start ==
    /\ currentImagePath # NULL
    /\ ~isProcessing
    /\ opCount < MaxOps
    /\ isProcessing' = TRUE
    /\ \E pt \in PromptTypes :
          /\ currentPromptType' = pt
          /\ ocr' = [pc |-> "imageLoad", w |-> 0, h |-> 0, sent |-> pt]
    /\ resultsContent' = EmptyPanel
    /\ lastBoxCount' = 0
    /\ overlay' = << >>
    /\ viewBox' = << >>
    /\ ocrPreviewSrc' = currentImagePath
    /\ opCount' = opCount + 1
    /\ stage' = "Polling"
    /\ grow' = NoGrow
    /\ UNCHANGED << currentImagePath, currentResultText, currentRawTokens,
                    timers, polls, lm, pdf, batch, envVars, harnessVars, mainProc >>
    /\ btn' = [btn EXCEPT !.ocrDisabled = TRUE, !.ocrText = "Processing..."]
    /\ progressStatus' = ProgressText("Starting OCR...", 0)
    /\ UNCHANGED checks

\* setInterval(..., 200): the closure of one token-poll interval
tokenPollInterval(op, w, h) == [op |-> op, w |-> w, h |-> h]

\* onload of the preview image: dimensions are read, the poll interval is
\* started and the perform-ocr request is submitted
performOCR_onload ==
    /\ ocr.pc = "imageLoad"
    /\ ocrPreviewSrc \in Images
    /\ ocr' = [ocr EXCEPT !.pc = "awaitOcr",
                           !.w = naturalWidth(ocrPreviewSrc),
                           !.h = naturalHeight(ocrPreviewSrc)]
    /\ srv' = [status |-> "processing", doc |-> docOf(currentImagePath),
               pos |-> 0]
    /\ timers' = timers \cup { tokenPollInterval(opCount,
                                   naturalWidth(ocrPreviewSrc),
                                   naturalHeight(ocrPreviewSrc)) }
    /\ reply' = NoReply
    /\ UNCHANGED << globalVars, domVars, polls, lm, pdf, batch, ghostVars,
                    harnessVars, mainProc, uiVars >>

\* one firing of the token-poll interval: fetch(`/progress`) is sent and
\* either the backend answers with its present status or the fetch (or
\* json()) is going to reject; the callback resumes later
pollTick(tm) ==
    /\ tm \in timers
    /\ Cardinality(polls) < MaxPolls
    /\ \E ok \in BOOLEAN :
          polls' = polls \cup
              { IF ok
                THEN [op |-> tm.op, w |-> tm.w, h |-> tm.h, ok |-> TRUE,
                      status |-> srv.status,
                      chars_generated |-> IF srv.status = "processing"
                                          THEN Len(streamOf(srv)) ELSE 0,
                      raw_token_stream |-> IF srv.status = "processing"
                                           THEN streamOf(srv) ELSE << >>]
                ELSE [op |-> tm.op, w |-> tm.w, h |-> tm.h, ok |-> FALSE,
                      status |-> "none", chars_generated |-> 0,
                      raw_token_stream |-> << >>] }
    /\ polls' # polls
    /\ UNCHANGED << globalVars, domVars, ocr, timers, lm, pdf, batch,
                    envVars, ghostVars, harnessVars, mainProc, uiVars >>

\* a plausible slip: the raw stream is shown in every mode
pollPanel_alwaysRaw(raw, pt, old) == TextPanel(raw)

\* the text panel written by the poll callback
pollPanel(raw, pt, old) ==
    IF pt = "ocr"
    THEN (IF Len(extractTextFromTokens(raw)) > 0
          THEN TextPanel(extractTextFromTokens(raw))
          ELSE old)
    ELSE TextPanel(raw)

\* a callback that shows the character count whatever the status is
pollProgressText_anyStatus(p, old) ==
    IF p.ok /\ p.chars_generated > 0
    THEN ProgressText("characters generated", p.chars_generated)
    ELSE old

\* #progress-status after the poll callback
pollProgressText(p, old) ==
    IF p.ok /\ p.status = "processing" /\ p.chars_generated > 0
    THEN ProgressText("characters generated", p.chars_generated)
    ELSE old

\* a callback that draws whatever the status is
pollActs_anyStatus(p) == Len(p.raw_token_stream) > 0

\* the poll callback acts on a response: status 'processing' with a
\* non-empty raw_token_stream
pollActs(p) == p.status = "processing" /\ Len(p.raw_token_stream) > 0

\* a plausible slip: the catch of the poll callback shows the error
pollApply_showsError(p) ==
    /\ p \in polls
    /\ polls' = polls \ {p}
    /\ IF p.ok /\ pollActs(p)
       THEN LET boxes == parseBoxesFromTokens(p.raw_token_stream, FALSE)
                dom == renderBoxes([overlay |-> overlay,
                                    viewBox |-> viewBox,
                                    lastBoxCount |-> lastBoxCount],
                                   boxes, p.w, p.h, currentPromptType)
            IN  /\ overlay' = dom.overlay
                /\ viewBox' = dom.viewBox
                /\ lastBoxCount' = dom.lastBoxCount
                /\ resultsContent' = pollPanel(p.raw_token_stream,
                                               currentPromptType,
                                               resultsContent)
                /\ grow' = Grown(grow, p.raw_token_stream)
       ELSE IF p.ok
            THEN UNCHANGED << overlay, viewBox, lastBoxCount, resultsContent,
                              grow >>
            ELSE /\ resultsContent' = ErrorPanel
                 /\ UNCHANGED << overlay, viewBox, lastBoxCount, grow >>
    /\ UNCHANGED << currentImagePath, currentResultText, currentRawTokens,
                    currentPromptType, isProcessing, ocrPreviewSrc, ocr,
                    timers, lm, pdf, batch, envVars, opCount, stage,
                    harnessVars, mainProc, btn, checks >>
    /\ progressStatus' = pollProgressText(p, progressStatus)

\* the rest of the poll callback, after the awaits on fetch and json();
\* a rejected fetch or json() is caught and ignored
pollApply(p) ==
    /\ p \in polls
    /\ polls' = polls \ {p}
    /\ IF p.ok /\ pollActs(p)
       THEN LET boxes == parseBoxesFromTokens(p.raw_token_stream, FALSE)
                dom == renderBoxes([overlay |-> overlay,
                                    viewBox |-> viewBox,
                                    lastBoxCount |-> lastBoxCount],
                                   boxes, p.w, p.h, currentPromptType)
            IN  /\ overlay' = dom.overlay
                /\ viewBox' = dom.viewBox
                /\ lastBoxCount' = dom.lastBoxCount
                /\ resultsContent' = pollPanel(p.raw_token_stream,
                                               currentPromptType,
                                               resultsContent)
                /\ grow' = Grown(grow, p.raw_token_stream)
       ELSE UNCHANGED << overlay, viewBox, lastBoxCount, resultsContent,
                         grow >>
    /\ UNCHANGED << currentImagePath, currentResultText, currentRawTokens,
                    currentPromptType, isProcessing, ocrPreviewSrc, ocr,
                    timers, lm, pdf, batch, envVars, opCount, stage,
                    harnessVars, mainProc, btn, checks >>
    /\ progressStatus' = pollProgressText(p, progressStatus)

\* ---------------------------------------------------------------- backend
serverAppend ==
    /\ srv.status = "processing"
    /\ srv.pos < Len(srv.doc)
    /\ srv' = [srv EXCEPT !.pos = srv.pos + 1]
    /\ UNCHANGED << globalVars, domVars, procVars, reply, ghostVars,
                    harnessVars, mainProc, uiVars >>

\* POST /ocr answers: main.js wraps response.data in {success: true}
serverFinish ==
    /\ srv.status = "processing"
    /\ srv.pos = Len(srv.doc)
    /\ ocr.pc = "awaitOcr"
    /\ reply.kind = "none"
    /\ \E hasRaw \in BOOLEAN :
          reply' = [kind |-> "success",
                    raw_tokens |-> IF hasRaw THEN streamOf(srv) ELSE << >>,
                    prompt_type |-> ocr.sent,
                    result |-> resultOf(streamOf(srv))]
    /\ srv' = IdleSrv
    /\ UNCHANGED << globalVars, domVars, procVars, ghostVars, harnessVars, mainProc, uiVars >>

\* the request fails: main.js answers {success: false}, or the invoke rejects
serverFail ==
    /\ srv.status = "processing"
    /\ ocr.pc = "awaitOcr"
    /\ reply.kind = "none"
    /\ \E k \in {"failure", "throw"} : reply' = [NoReply EXCEPT !.kind = k]
    /\ srv' = IdleSrv
    /\ UNCHANGED << globalVars, domVars, procVars, ghostVars, harnessVars, mainProc, uiVars >>

\* displayResults(result, promptType) for a string result, marked present
displayResults(result, pt) ==
    [currentResultText |-> result,
     resultsContent |-> IF pt = "document" THEN MarkdownPanel(result)
                        ELSE TextPanel(result)]

\* the text shown and stored by the success branch of performOCR
finalText(rep) ==
    IF rep.prompt_type = "ocr"
    THEN (IF Len(rep.raw_tokens) > 0
          THEN extractTextFromTokens(rep.raw_tokens) ELSE rep.result)
    ELSE IF rep.prompt_type = "document" THEN rep.result
    ELSE (IF Len(rep.raw_tokens) > 0 THEN rep.raw_tokens ELSE rep.result)

\* an interval that is never cleared
clearInterval_leaks(tms, op) == tms

\* clearInterval(tokenPollInterval) of the invocation op
clearInterval(tms, op) == { tm \in tms : tm.op # op }

\* the final render is made: `if (currentRawTokens && imageNaturalWidth &&
\* imageNaturalHeight)`
finalDrawn(rawTokens, w, h) == Len(rawTokens) > 0 /\ w # 0 /\ h # 0

\* a final render that forgets `ocrBoxesOverlay.innerHTML = ''`
finalRender_keepsOverlay(dom, rawTokens, w, h, pt) ==
    IF finalDrawn(rawTokens, w, h)
    THEN renderBoxes([overlay |-> dom.overlay, viewBox |-> dom.viewBox,
                      lastBoxCount |-> 0],
                     parseBoxesFromTokens(rawTokens, TRUE), w, h, pt)
    ELSE dom

\* the final render of the success branch: it empties the overlay, resets
\* the cursor and renders the boxes of the complete stream
finalRender(dom, rawTokens, w, h, pt) ==
    IF finalDrawn(rawTokens, w, h)
    THEN renderBoxes([overlay |-> << >>, viewBox |-> dom.viewBox,
                      lastBoxCount |-> 0],
                     parseBoxesFromTokens(rawTokens, TRUE), w, h, pt)
    ELSE dom

\* performOCR from the resolution of the perform-ocr invoke to its return
performOCR_settle ==
    /\ ocr.pc = "awaitOcr"
    /\ reply.kind # "none"
    /\ timers' = clearInterval(timers, opCount)
    /\ IF reply.kind = "success"
       THEN LET raw == reply.raw_tokens
                dom == finalRender([overlay |-> overlay, viewBox |-> viewBox,
                                    lastBoxCount |-> lastBoxCount],
                                   raw, ocr.w, ocr.h, currentPromptType)
            IN  /\ currentRawTokens' = raw
                /\ overlay' = dom.overlay
                /\ viewBox' = dom.viewBox
                /\ lastBoxCount' = dom.lastBoxCount
                /\ grow' = IF finalDrawn(raw, ocr.w, ocr.h)
                           THEN Grown(NoGrow, raw) ELSE grow
                /\ currentResultText' = finalText(reply)
                /\ resultsContent' =
                       IF reply.prompt_type = "document"
                       THEN MarkdownPanel(reply.result)
                       ELSE TextPanel(finalText(reply))
                /\ stage' = "Done"
                /\ UNCHANGED ocrPreviewSrc
       ELSE /\ overlay' = << >>
            /\ viewBox' = << >>
            /\ lastBoxCount' = 0
            /\ ocrPreviewSrc' = ""
            /\ resultsContent' = ErrorPanel
            /\ grow' = NoGrow
            /\ stage' = "Failed"
            /\ UNCHANGED << currentRawTokens, currentResultText >>
    /\ isProcessing' = FALSE
    /\ ocr' = IdleOcr
    /\ reply' = NoReply
    /\ UNCHANGED << currentImagePath, currentPromptType, polls, lm, pdf,
                    batch, srv, opCount, harnessVars, mainProc >>
    /\ btn' = [btn EXCEPT !.ocrText = "Run OCR"]
    /\ UNCHANGED << checks, progressStatus >>

\* loadModel as the other handlers see it, the busy flag held from its first
\* lines to its finally block (its timers are followed in SpecLoad)
loadModel_start ==
    /\ ~isProcessing
    /\ isProcessing' = TRUE
    /\ lm' = [lm EXCEPT !.pc = "loading"]
    /\ UNCHANGED << currentImagePath, currentResultText, currentRawTokens,
                    currentPromptType, lastBoxCount, domVars, ocr, timers,
                    polls, pdf, batch, envVars, ghostVars, harnessVars, mainProc,
                    uiVars >>

\* loadModel: the final status arrived (or an await threw); finally block
loadModel_finish ==
    /\ lm.pc = "loading"
    /\ isProcessing' = FALSE
    /\ lm' = [lm EXCEPT !.pc = "idle"]
    /\ UNCHANGED << currentImagePath, currentResultText, currentRawTokens,
                    currentPromptType, lastBoxCount, domVars, ocr, timers,
                    polls, pdf, batch, envVars, ghostVars, harnessVars, mainProc,
                    uiVars >>

\* performPDFOCR up to the await of the select-pdf dialog
performPDFOCR_start ==
    /\ ~isProcessing
    /\ isProcessing' = TRUE
    /\ pdf' = "select"
    /\ UNCHANGED << currentImagePath, currentResultText, currentRawTokens,
                    currentPromptType, lastBoxCount, domVars, ocr, timers,
                    polls, lm, batch, envVars, ghostVars, harnessVars, mainProc, btn, checks >>
    /\ progressStatus' = ProgressText("Selecting PDF...", 0)

\* the dialog answered: cancelled (return through finally) or a path
performPDFOCR_selected ==
    /\ pdf = "select"
    /\ \E chosen \in BOOLEAN :
          IF chosen
          THEN /\ pdf' = "awaitPdf"
               /\ progressStatus' = ProgressText("Processing PDF...", 0)
               /\ UNCHANGED isProcessing
          ELSE /\ pdf' = "idle"
               /\ isProcessing' = FALSE
               /\ UNCHANGED progressStatus
    /\ UNCHANGED << currentImagePath, currentResultText, currentRawTokens,
                    currentPromptType, lastBoxCount, domVars, ocr, timers,
                    polls, lm, batch, envVars, ghostVars, harnessVars, mainProc,
                    btn, checks >>

\* the result of a PDF or batch submission is shown: success branch with
\* displayResults, failure branch and catch with the error paragraph
showCombined(success, pt, combined) ==
    IF success
    THEN /\ currentPromptType' = pt
         /\ currentResultText' = displayResults(combined, pt).currentResultText
         /\ resultsContent' = displayResults(combined, pt).resultsContent
    ELSE /\ resultsContent' = ErrorPanel
         /\ UNCHANGED << currentPromptType, currentResultText >>

\* result.data.combined_text of a PDF or batch submission
CombinedText == << "FOO" >>

performPDFOCR_finish ==
    /\ pdf = "awaitPdf"
    /\ \E success \in BOOLEAN, pt \in PromptTypes :
          showCombined(success, pt, CombinedText)
    /\ isProcessing' = FALSE
    /\ pdf' = "idle"
    /\ UNCHANGED << currentImagePath, currentRawTokens, lastBoxCount,
                    overlay, viewBox, ocrPreviewSrc, ocr, timers, polls, lm,
                    batch, envVars, ghostVars, harnessVars, mainProc, uiVars >>

\* performBatchOCRWithPaths(imagePaths), imagePaths non-empty, up to the
\* await of the perform-ocr-batch invoke
\* imagePaths.length of the batch
BatchSize == 2

performBatchOCRWithPaths_start ==
    /\ ~isProcessing
    /\ isProcessing' = TRUE
    /\ resultsContent' = EmptyPanel
    /\ ocrPreviewSrc' = ""
    /\ overlay' = << >>
    /\ viewBox' = << >>
    /\ lastBoxCount' = 0
    /\ batch' = "awaitBatch"
    /\ grow' = NoGrow
    /\ UNCHANGED << currentImagePath, currentResultText, currentRawTokens,
                    currentPromptType, ocr, timers, polls, lm, pdf, envVars,
                    opCount, stage, harnessVars, mainProc, btn, checks >>
    /\ progressStatus' = ProgressText("Processing images...", BatchSize)

performBatchOCRWithPaths_finish ==
    /\ batch = "awaitBatch"
    /\ \E success \in BOOLEAN, pt \in PromptTypes :
          showCombined(success, pt, CombinedText)
    /\ isProcessing' = FALSE
    /\ batch' = "idle"
    /\ UNCHANGED << currentImagePath, currentRawTokens, lastBoxCount,
                    overlay, viewBox, ocrPreviewSrc, ocr, timers, polls, lm,
                    pdf, envVars, ghostVars, harnessVars, mainProc, uiVars >>

Next ==
    \/ \E f \in Images : loadImage(f)
    \/ clearImage
    \/ performOCR_start
    \/ performOCR_onload
    \/ \E tm \in timers : pollTick(tm)
    \/ \E p \in polls : pollApply(p)
    \/ serverAppend
    \/ serverFinish
    \/ serverFail
    \/ performOCR_settle
    \/ loadModel_start
    \/ loadModel_finish
    \/ performPDFOCR_start
    \/ performPDFOCR_selected
    \/ performPDFOCR_finish
    \/ performBatchOCRWithPaths_start
    \/ performBatchOCRWithPaths_finish

Spec == Init /\ [][Next]_vars

\* ------------------------------------------- loadModel in detail (SpecLoad)
MaxLoads == 1
MaxLiveOps == 1

\* an image file that does not decode: the preview never fires onload
LiveFiles == { "a.png", "broken.png" }

\* data.progress_percent and data.stage of /progress while loading
LoadPercent == 50
LoadStage == "weights"

\* Math.max(0, Math.min(100, data.progress_percent || 0))
percentOf(x) == IF x < 0 THEN 0 ELSE IF x > 100 THEN 100 ELSE x

\* a click on the Load Model button, which is not disabled: loadModel from
\* its busy check to the await of the load-model invoke; the
\* progress interval is started and the request is sent; the backend takes
\* it (status 'loading'), or the request fails at once: main.js answers
\* {success: false}, or the invoke rejects
loadModel_invoke ==
    /\ ~btn.loadDisabled
    /\ ~isProcessing
    /\ lm.pc = "idle"
    /\ lm.n < MaxLoads
    /\ isProcessing' = TRUE
    /\ \E r \in {"none", "failure", "throw"} :
          /\ lm' = [lm EXCEPT !.pc = "invoke", !.pollInterval = TRUE,
                              !.checkStatus = FALSE, !.reply = r,
                              !.n = lm.n + 1]
          /\ srv' = IF r = "none" THEN [srv EXCEPT !.status = "loading"]
                    ELSE srv
    /\ UNCHANGED << currentImagePath, currentResultText, currentRawTokens,
                    currentPromptType, lastBoxCount, domVars, ocr, timers,
                    polls, pdf, batch, reply, ghostVars, harnessVars, mainProc >>
    /\ btn' = [btn EXCEPT !.loadDisabled = TRUE,
                          !.loadText = "Loading Model..."]
    /\ UNCHANGED << checks, progressStatus >>

\* POST /load_model ends: the model is loaded or the load failed
serverLoadDone ==
    /\ srv.status = "loading"
    /\ lm.pc = "invoke"
    /\ lm.reply = "none"
    /\ \E st \in {"loaded", "error"} :
          /\ srv' = [srv EXCEPT !.status = st]
          /\ lm' = [lm EXCEPT !.reply = IF st = "loaded" THEN "success"
                                        ELSE "failure"]
    /\ UNCHANGED << globalVars, domVars, ocr, timers, polls, pdf, batch,
                    reply, ghostVars, harnessVars, mainProc, uiVars >>

\* the invoke resolved: the final-status interval is started and loadModel
\* awaits its promise
loadModel_resolved ==
    /\ lm.pc = "invoke"
    /\ lm.reply \in {"success", "failure"}
    /\ lm' = [lm EXCEPT !.pc = "waitFinal", !.checkStatus = TRUE]
    /\ UNCHANGED << globalVars, domVars, ocr, timers, polls, pdf, batch,
                    envVars, ghostVars, harnessVars, mainProc, uiVars >>

\* a catch block that forgets clearInterval(pollInterval)
catchClears_leaks(l) == l

\* catch: `if (pollInterval) clearInterval(pollInterval)`
catchClears(l) == [l EXCEPT !.pollInterval = FALSE]

\* the invoke rejected: catch block up to its await of checkServerStatus
loadModel_catch ==
    /\ lm.pc = "invoke"
    /\ lm.reply = "throw"
    /\ lm' = [catchClears(lm) EXCEPT !.pc = "checkServer"]
    /\ UNCHANGED << globalVars, domVars, ocr, timers, polls, pdf, batch,
                    envVars, ghostVars, harnessVars, mainProc, uiVars >>

\* one firing of pollProgress (kind "pollProgress") or of the final-status
\* interval (kind "checkStatus"): fetch(`/progress`) is sent and the backend
\* answers with its present status, or the fetch is going to reject
progressTick(kind) ==
    /\ \/ kind = "pollProgress" /\ lm.pollInterval
       \/ kind = "checkStatus" /\ lm.checkStatus
    /\ Cardinality(lm.fetches) < MaxPolls
    /\ \E ok \in BOOLEAN :
          lm' = [lm EXCEPT !.fetches = lm.fetches \cup
                    { [kind |-> kind, n |-> lm.n, ok |-> ok,
                       status |-> IF ok THEN srv.status ELSE "none"] }]
    /\ UNCHANGED << globalVars, domVars, ocr, timers, polls, pdf, batch,
                    envVars, ghostVars, harnessVars, mainProc, uiVars >>

\* a progress callback that also shows the stage in the results panel
progressPanel_showsStage(f, old) ==
    IF f.ok /\ f.status = "loading" THEN TextPanel(<< LoadStage >>) ELSE old

\* the results panel after a progress callback: it is not written
progressPanel(f, old) == old

\* the progress display after the callback of pollProgress
progressBar(f, bar) ==
    IF ~f.ok THEN bar
    ELSE IF f.status = "loading"
         THEN [width |-> percentOf(LoadPercent), stage |-> LoadStage,
               percent |-> percentOf(LoadPercent)]
    ELSE IF f.status = "loaded"
         THEN [width |-> 100, stage |-> "complete", percent |-> 100]
    ELSE IF f.status = "error" THEN [bar EXCEPT !.stage = "error"]
    ELSE bar

\* a callback that takes only 'loaded' for the end of the load
sawFinal_onlyLoaded(f) == f.ok /\ f.status = "loaded"

\* the callback saw the end of the load
sawFinal(f) == f.ok /\ f.status \in {"loaded", "error"}

\* the rest of a timer callback of loadModel after its awaits on fetch and
\* json(); pollInterval and checkStatus are variables of the invocation
\* that started the timer, so a callback of an earlier invocation clears
\* nothing of the present one
progressApply(f) ==
    /\ f \in lm.fetches
    /\ LET own == f.n = lm.n
           rest == lm.fetches \ {f}
       IN  IF f.kind = "pollProgress"
           THEN lm' = [lm EXCEPT
                         !.fetches = rest,
                         !.bar = progressBar(f, lm.bar),
                         !.pollInterval =
                             IF own /\ sawFinal(f) THEN FALSE
                             ELSE lm.pollInterval]
           ELSE lm' = [lm EXCEPT
                         !.fetches = rest,
                         !.checkStatus =
                             IF own /\ sawFinal(f) THEN FALSE
                             ELSE lm.checkStatus,
                         !.pollInterval =
                             IF own /\ sawFinal(f) THEN FALSE
                             ELSE lm.pollInterval,
                         !.pc =
                             IF own /\ sawFinal(f) /\ lm.pc = "waitFinal"
                             THEN "checkServer" ELSE lm.pc]
    /\ resultsContent' = progressPanel(f, resultsContent)
    /\ UNCHANGED << globalVars, overlay, viewBox, ocrPreviewSrc, ocr,
                    timers, polls, pdf, batch, envVars, ghostVars,
                    harnessVars, mainProc, uiVars >>

\* ------------------------------------------------------ checkServerStatus
MaxChecks == 1

\* what the check-server-status invoke resolves to: {success: true, data}
\* with data.model_loaded, or {success: false}; "throw" is a rejected invoke
StatusReplies ==
    { [kind |-> "ok", model_loaded |-> m] : m \in BOOLEAN }
        \cup { [kind |-> "failed", model_loaded |-> FALSE],
               [kind |-> "throw", model_loaded |-> FALSE] }

\* a status check that enables Run OCR without looking at isProcessing
statusApply_ignoresBusy(b, r, busy, path) ==
    IF r.kind = "ok"
    THEN [b EXCEPT !.ocrDisabled = ~(path # NULL /\ r.model_loaded)]
    ELSE b

\* the buttons after checkServerStatus resumed with answer r, the busy flag
\* and the image path being read at that moment
statusApply(b, r, busy, path) ==
    IF r.kind = "ok"
    THEN IF busy THEN b
         ELSE [ocrDisabled |-> ~(path # NULL /\ r.model_loaded),
               ocrText |-> b.ocrText,
               loadDisabled |-> r.model_loaded,
               loadText |-> IF r.model_loaded THEN "Model Loaded"
                            ELSE "Load Model"]
    ELSE IF r.kind = "failed" THEN [b EXCEPT !.ocrDisabled = TRUE]
    ELSE b

\* checkServerStatus up to its await: the 5 s interval, a change of the
\* server URL or of the engine, or the last line of loadImage and of
\* performOCR
checkServerStatus_invoke ==
    /\ checks < MaxChecks
    /\ checks' = checks + 1
    /\ UNCHANGED << globalVars, domVars, procVars, envVars, ghostVars,
                    harnessVars, mainProc, btn, progressStatus >>

\* checkServerStatus after its await
checkServerStatus_resume ==
    /\ checks > 0
    /\ checks' = checks - 1
    /\ \E r \in StatusReplies :
          btn' = statusApply(btn, r, isProcessing, currentImagePath)
    /\ UNCHANGED << globalVars, domVars, procVars, envVars, ghostVars,
                    harnessVars, mainProc, progressStatus >>

\* the checkServerStatus that loadModel awaits resumed and returned, then
\* the finally block
loadModel_return ==
    /\ lm.pc = "checkServer"
    /\ \E r \in StatusReplies :
          btn' = statusApply(btn, r, isProcessing, currentImagePath)
    /\ isProcessing' = FALSE
    /\ lm' = [lm EXCEPT !.pc = "idle", !.pollInterval = FALSE,
                        !.reply = "none"]
    /\ UNCHANGED << currentImagePath, currentResultText, currentRawTokens,
                    currentPromptType, lastBoxCount, domVars, ocr, timers,
                    polls, pdf, batch, envVars, ghostVars, harnessVars, mainProc,
                    checks, progressStatus >>

\* performOCR started at most MaxLiveOps times
liveStart == opCount < MaxLiveOps /\ performOCR_start

BackendAnswers == serverFinish \/ serverFail

\* one OCR operation and MaxLoads model loads, in any order (SpecLoad)
LoadNext ==
    \/ \E f \in LiveFiles : loadImage(f)
    \/ liveStart
    \/ performOCR_onload
    \/ \E tm \in timers : pollTick(tm)
    \/ \E p \in polls : pollApply(p)
    \/ serverAppend
    \/ BackendAnswers
    \/ performOCR_settle
    \/ loadModel_invoke
    \/ serverLoadDone
    \/ loadModel_resolved
    \/ loadModel_catch
    \/ \E kind \in {"pollProgress", "checkStatus"} : progressTick(kind)
    \/ \E f \in lm.fetches : progressApply(f)
    \/ loadModel_return

SpecLoad == Init /\ [][LoadNext]_vars

\* performOCR alone, with a fair event loop and a backend that answers
\* every submission it receives (SpecOcrFair)
OcrFairNext ==
    \/ \E f \in LiveFiles : loadImage(f)
    \/ liveStart
    \/ performOCR_onload
    \/ \E tm \in timers : pollTick(tm)
    \/ \E p \in polls : pollApply(p)
    \/ serverAppend
    \/ BackendAnswers
    \/ performOCR_settle

\* the submission was answered and performOCR can resume
SettleReady == ocr.pc = "awaitOcr" /\ reply.kind # "none"

\* weak fairness of every step of the operation; for the poll callback and
\* for the settle step the enabling condition is written out (a pending
\* response, an answered submission)
OcrFairness ==
    /\ WF_vars(performOCR_onload)
    /\ ([]<>(polls = {}) \/ []<><<\E p \in polls : pollApply(p)>>_vars)
    /\ WF_vars(serverAppend)
    /\ WF_vars(BackendAnswers)
    /\ ([]<>~SettleReady \/ []<><<performOCR_settle>>_vars)

SpecOcrFair == Init /\ [][OcrFairNext]_vars /\ OcrFairness

\* loadModel and the loading of images, with a fair event loop, timers that
\* keep firing and a backend that ends every load it has started
\* (SpecLoadFair)
LoadFairNext ==
    \/ \E f \in LiveFiles : loadImage(f)
    \/ loadModel_invoke
    \/ serverLoadDone
    \/ loadModel_resolved
    \/ loadModel_catch
    \/ \E kind \in {"pollProgress", "checkStatus"} : progressTick(kind)
    \/ \E f \in lm.fetches : progressApply(f)
    \/ loadModel_return

LoadFairness ==
    /\ WF_vars(serverLoadDone)
    /\ WF_vars(loadModel_resolved)
    /\ WF_vars(loadModel_catch)
    /\ WF_vars(\E kind \in {"pollProgress", "checkStatus"} :
                  progressTick(kind))
    /\ WF_vars(\E f \in lm.fetches : progressApply(f))
    /\ WF_vars(loadModel_return)

SpecLoadFair == Init /\ [][LoadFairNext]_vars /\ LoadFairness

\* the token poll against a backend that answers /progress with any status,
\* any character count and any stream (SpecPoll)
PollStatuses == { "idle", "loading", "processing", "loaded", "error" }
PollChars == { 0, 7 }
PollTexts == { << >> } \cup { Flatten(SubSeq(MasterDoc("a.png"), 1, k)) :
                                k \in 1..MaxDocPieces }

pollTickAny(tm) ==
    /\ tm \in timers
    /\ Cardinality(polls) < MaxPolls
    /\ Len(overlay) < MaxGroups
    /\ \E st \in PollStatuses, c \in PollChars, t \in PollTexts :
          polls' = polls \cup
              { [op |-> tm.op, w |-> tm.w, h |-> tm.h, ok |-> TRUE,
                 status |-> st, chars_generated |-> c,
                 raw_token_stream |-> t] }
    /\ polls' # polls
    /\ UNCHANGED << globalVars, domVars, ocr, timers, lm, pdf, batch,
                    envVars, ghostVars, harnessVars, mainProc, uiVars >>

PollNext ==
    \/ loadImage("a.png")
    \/ liveStart
    \/ performOCR_onload
    \/ \E tm \in timers : pollTickAny(tm)
    \/ \E p \in polls : pollApply(p)

SpecPoll == Init /\ [][PollNext]_vars

\* the buttons: one OCR operation, model loads, a PDF operation, clearing
\* of the image and status checks, in any order; the token poll, which
\* writes no button, is not scheduled (SpecButtons)
ButtonsNext ==
    \/ \E f \in LiveFiles : loadImage(f)
    \/ clearImage
    \/ liveStart
    \/ performOCR_onload
    \/ serverAppend
    \/ BackendAnswers
    \/ performOCR_settle
    \/ loadModel_invoke
    \/ serverLoadDone
    \/ loadModel_resolved
    \/ loadModel_catch
    \/ \E kind \in {"pollProgress", "checkStatus"} : progressTick(kind)
    \/ \E f \in lm.fetches : progressApply(f)
    \/ loadModel_return
    \/ performPDFOCR_start
    \/ performPDFOCR_selected
    \/ performPDFOCR_finish
    \/ checkServerStatus_invoke
    \/ checkServerStatus_resume

SpecButtons == Init /\ [][ButtonsNext]_vars


\* ------------------------------------------------ parser harness (SpecParse)
\* parseBoxesFromTokens applied to one raw text drawn from ParseInputs
ParseInit ==
    /\ ControllerInit
    /\ pText \in ParseInputs
    /\ pEnded \in BOOLEAN
    /\ pBoxes = << >>
    /\ pDone = FALSE
    /\ rCall = NoCall
    /\ pLog = << >>

parseCall ==
    /\ ~pDone
    /\ pBoxes' = parseBoxesFromTokens(pText, pEnded)
    /\ pDone' = TRUE
    /\ UNCHANGED << pText, pEnded, rCall, pLog, programVars, ghostVars, uiVars, mainProc >>

ParseNext == parseCall

SpecParse == ParseInit /\ [][ParseNext]_vars

\* ----------------------------------------------- render harness (SpecRender)
\* renderBoxes called again and again on the overlay, each time with the
\* boxes of some stream prefix, some dimensions and some prompt type, with
\* the overlay emptied in between as the handlers do
RenderTexts ==
    { Flatten(SubSeq(MasterDoc(img), 1, k)) :
        img \in Images, k \in 1..MaxDocPieces }

RenderDims == { << 100, 50 >>, << 200, 200 >>, << 0, 50 >> }

renderCall ==
    /\ Len(overlay) <= MaxGroups
    /\ \E t \in RenderTexts, e \in BOOLEAN, d \in RenderDims,
          pt \in PromptTypes :
          LET boxes == parseBoxesFromTokens(t, e)
              before == [overlay |-> overlay, viewBox |-> viewBox,
                         lastBoxCount |-> lastBoxCount]
              dom == renderBoxes(before, boxes, d[1], d[2], pt)
          IN  /\ overlay' = dom.overlay
              /\ viewBox' = dom.viewBox
              /\ lastBoxCount' = dom.lastBoxCount
              /\ pText' = t
              /\ pEnded' = e
              /\ pBoxes' = boxes
              /\ pDone' = TRUE
              /\ rCall' = [called |-> TRUE, w |-> d[1], h |-> d[2],
                           promptType |-> pt, before |-> before]
    /\ UNCHANGED << currentImagePath, currentResultText, currentRawTokens,
                    currentPromptType, isProcessing, resultsContent,
                    ocrPreviewSrc, procVars, envVars, ghostVars, pLog,
                    uiVars, mainProc >>

\* ocrBoxesOverlay.innerHTML = ''; removeAttribute('viewBox');
\* lastBoxCount = 0
renderClear ==
    /\ overlay # << >>
    /\ overlay' = << >>
    /\ viewBox' = << >>
    /\ lastBoxCount' = 0
    /\ pText' = << >>
    /\ pEnded' = FALSE
    /\ pBoxes' = << >>
    /\ pDone' = FALSE
    /\ rCall' = NoCall
    /\ UNCHANGED << currentImagePath, currentResultText, currentRawTokens,
                    currentPromptType, isProcessing, resultsContent,
                    ocrPreviewSrc, procVars, envVars, ghostVars, pLog,
                    uiVars, mainProc >>

RenderNext == renderCall \/ renderClear

SpecRender == Init /\ [][RenderNext]_vars

\* --------------------------------------------- label harness (SpecLabel)
\* parseBoxesFromTokens applied to one record whose label is any sequence of
\* up to MaxLabelLen symbols among a space, two known types and another word
LabelSyms == { " ", "title", "list", "Hello" }

Labels == UNION { [1..k -> LabelSyms] : k \in 1..MaxLabelLen }

LabelTexts == { Rec(l, Coords4) \o << "FOO" >> : l \in Labels }

LabelInit ==
    /\ ControllerInit
    /\ pText \in LabelTexts
    /\ pEnded \in BOOLEAN
    /\ pBoxes = << >>
    /\ pDone = FALSE
    /\ rCall = NoCall
    /\ pLog = << >>

SpecLabel == LabelInit /\ [][ParseNext]_vars

\* ---------------------------------------- repeated calls (SpecReparse)
\* parseBoxesFromTokens called again and again, on any text and flag; every
\* call starts from `const boxes = []`, `const matches = []` and a fresh
\* refDetRegex (lastIndex 0)
\* a plausible slip: `boxes` declared outside the function and never emptied
parseAgain_keepsBoxes ==
    /\ Len(pLog) < MaxCalls
    /\ \E t \in RenderTexts, e \in BOOLEAN :
          LET boxes == pBoxes \o parseBoxesFromTokens(t, e)
          IN  /\ pText' = t
              /\ pEnded' = e
              /\ pBoxes' = boxes
              /\ pLog' = Append(pLog, [text |-> t, ended |-> e,
                                       boxes |-> boxes])
    /\ pDone' = TRUE
    /\ UNCHANGED << rCall, programVars, ghostVars, uiVars, mainProc >>

parseAgain ==
    /\ Len(pLog) < MaxCalls
    /\ \E t \in RenderTexts, e \in BOOLEAN :
          LET boxes == parseBoxesFromTokens(t, e)
          IN  /\ pText' = t
              /\ pEnded' = e
              /\ pBoxes' = boxes
              /\ pLog' = Append(pLog, [text |-> t, ended |-> e,
                                       boxes |-> boxes])
    /\ pDone' = TRUE
    /\ UNCHANGED << rCall, programVars, ghostVars, uiVars, mainProc >>

ReparseNext == parseAgain

SpecReparse == Init /\ [][ReparseNext]_vars

\* ------------------------------------------------------- controller claims
\* a poll response is stale when its invocation is not the one whose
\* submission is pending
Stale(p) == p.op # opCount \/ ocr.pc # "awaitOcr"

\* C1: a poll response that resolves after its submission settled, or that
\* belongs to an earlier invocation, changes neither the overlay, nor the
\* cursor, nor the text panel.
C1_StalePollDiscarded ==
    [][\A p \in polls :
          (p \notin polls' /\ Stale(p)) =>
              UNCHANGED << overlay, lastBoxCount, resultsContent >>]_vars

\* C2: the step that delivers a successful submission leaves the overlay
\* holding exactly the groups of the boxes parsed from the final raw tokens
\* with isOcrComplete = true, and the cursor at their number.
C2_FinalRenderOnSuccess ==
    [][(ocr.pc = "awaitOcr" /\ reply.kind = "success" /\ ocr'.pc = "idle") =>
          LET final == parseBoxesFromTokens(reply.raw_tokens, TRUE)
          IN  /\ lastBoxCount' = Len(final)
              /\ overlay' = [k \in 1..Len(final) |->
                                boxGroup(final[k], k - 1, ocr.w, ocr.h,
                                         currentPromptType)]]_vars

\* C3: every active token-poll interval belongs to the invocation whose
\* submission is pending, and every /progress fetch is started by such an
\* interval: once performOCR has passed the invoke, on any path, its
\* interval is gone and ticks no more.
C3_TimerStoppedOnSettle ==
    /\ [](\A tm \in timers : tm.op = opCount /\ ocr.pc = "awaitOcr")
    /\ [][\A p \in polls' \ polls :
             p.op = opCount /\ ocr.pc = "awaitOcr"]_vars

\* the submission failed, the interval is gone, and a fetch it started
\* before is still in flight
C3_Witness ==
    /\ ocr.pc = "idle"
    /\ stage = "Failed"
    /\ timers = {}
    /\ \E p \in polls : p.op = opCount

\* the operations that are between their start and their return
ActiveOps ==
    { o \in {"performOCR", "loadModel", "performPDFOCR",
             "performBatchOCRWithPaths"} :
        \/ o = "performOCR" /\ ocr.pc # "idle"
        \/ o = "loadModel" /\ lm.pc # "idle"
        \/ o = "performPDFOCR" /\ pdf # "idle"
        \/ o = "performBatchOCRWithPaths" /\ batch # "idle" }

\* C4: at most one of performOCR, loadModel, performPDFOCR and
\* performBatchOCRWithPaths is active, isProcessing is set exactly while one
\* is, and while it is set no step starts an operation, and none submits a
\* request but the running performOCR at the load of its preview image.
C4_SingleOperation ==
    /\ [](Cardinality(ActiveOps) <= 1 /\ (isProcessing <=> ActiveOps # {}))
    /\ [][isProcessing =>
             /\ (ocr.pc = "idle" => ocr'.pc = "idle")
             /\ (lm.pc = "idle" => lm'.pc = "idle")
             /\ (pdf = "idle" => pdf' = "idle")
             /\ (batch = "idle" => batch' = "idle")
             /\ (srv.status = "idle" /\ ocr.pc # "imageLoad" =>
                    srv'.status = "idle")]_vars

\* loadModel holds the flag while an image is loaded, so that the flag alone
\* keeps performOCR from starting
C4_Witness ==
    /\ isProcessing
    /\ lm.pc = "loading"
    /\ currentImagePath # NULL
    /\ ocr.pc = "idle"

\* length of the box list most recently passed to renderBoxes since the
\* overlay was last emptied
LastListLen == Len(parseBoxesFromTokens(grow.text, FALSE))

\* C5: the cursor is at most the length of the list most recently passed to
\* renderBoxes, and the overlay has no more groups than that list has boxes.
C5_CursorWithinList ==
    grow.text # << >> =>
        /\ lastBoxCount <= LastListLen
        /\ Len(overlay) <= LastListLen

NoIndexTwice(ov) ==
    \A i, j \in 1..Len(ov) : ov[i].index = ov[j].index => i = j

\* C6: while every text rendered since the overlay was emptied extends the
\* one before it, no box index is in the overlay twice, and a poll's
\* renderBoxes call leaves the groups already there as they are and draws
\* only indices from the previous cursor on.
C6_AppendOnlyNoRedraw ==
    [][grow'.ok =>
          /\ NoIndexTwice(overlay')
          /\ (polls' # polls /\ polls' \subseteq polls) =>
                 /\ IsPrefix(overlay, overlay')
                 /\ \A k \in (Len(overlay) + 1)..Len(overlay') :
                        overlay'[k].index >= lastBoxCount]_vars

\* two polls of a growing stream drew one box each: the first group is
\* still as the first poll drew it, dimmed, beside the second
C6_Witness ==
    /\ grow.ok
    /\ ocr.pc = "awaitOcr"
    /\ currentPromptType = "document"
    /\ Len(overlay) = 2
    /\ overlay[1].dimmed
    /\ lastBoxCount = 2

pMatches == collectMatches(pText, 1)

\* number of the comma-separated fields of cs that parse as a number
NumericFields(cs) ==
    Cardinality({ k \in 1..Len(split(cs)) :
                    parseFloat(trim(split(cs)[k])) # NaN })

Accepted(ms) == { i \in 1..Len(ms) : NumericFields(ms[i].coords) = 4 }

\* position in the returned list of the box of accepted match i
BoxIndex(ms, i) == Cardinality({ j \in Accepted(ms) : j <= i })

\* C8: the box of the last match carries the trimmed text from the match's
\* end to the end of the raw text, and is complete exactly when the stream
\* has ended and that text is not empty.
C8_LastSpanFinality ==
    pDone =>
        LET ms == pMatches
            n == Len(ms)
        IN  (n > 0 /\ n \in Accepted(ms)) =>
                /\ Len(pBoxes) > 0
                /\ LET b == pBoxes[Len(pBoxes)]
                       tail == trim(SubSeq(pText, ms[n].matchEnd + 1,
                                           Len(pText)))
                   IN  /\ b.textContent = tail
                       /\ b.isComplete = (pEnded /\ tail # << >>)

\* text follows the last record of an open stream and the box is not final
C8_Witness ==
    /\ pDone /\ ~pEnded
    /\ Len(pMatches) > 0 /\ Len(pMatches) \in Accepted(pMatches)
    /\ Len(pBoxes) > 0
    /\ pBoxes[Len(pBoxes)].textContent = << "FOO" >>
    /\ ~pBoxes[Len(pBoxes)].isComplete

\* C9: the box of a match that is not the last carries the trimmed text
\* strictly between the match's end and the next match's start, and is
\* complete exactly when that text is not empty, whatever isOcrComplete is.
C9_InnerSpanFinality ==
    pDone =>
        LET ms == pMatches
        IN  \A i \in Accepted(ms) :
                i < Len(ms) =>
                    /\ BoxIndex(ms, i) <= Len(pBoxes)
                    /\ LET b == pBoxes[BoxIndex(ms, i)]
                           between == trim(SubSeq(pText, ms[i].matchEnd + 1,
                                                  ms[i + 1].matchStart))
                       IN  /\ b.textContent = between
                           /\ b.isComplete = (between # << >>)

\* an inner span is final while the stream is still open
C9_Witness ==
    /\ pDone /\ ~pEnded
    /\ Len(pMatches) >= 2 /\ 1 \in Accepted(pMatches)
    /\ Len(pBoxes) > 0
    /\ pBoxes[1].textContent = << "FOO" >>
    /\ pBoxes[1].isComplete

\* C10: the returned boxes are, in order, the matches whose coordinate
\* string has exactly 4 numeric fields; every other match yields no box.
C10_ExactlyFourCoords ==
    pDone =>
        LET ms == pMatches
        IN  /\ Len(pBoxes) = Cardinality(Accepted(ms))
            /\ \A i \in Accepted(ms) :
                   /\ BoxIndex(ms, i) <= Len(pBoxes)
                   /\ pBoxes[BoxIndex(ms, i)].content = ms[i].content
                   /\ << pBoxes[BoxIndex(ms, i)].x1, pBoxes[BoxIndex(ms, i)].y1,
                         pBoxes[BoxIndex(ms, i)].x2, pBoxes[BoxIndex(ms, i)].y2 >>
                        = parseCoords(ms[i].coords)

\* a dropped record stands between two accepted ones
C10_Witness ==
    /\ pDone
    /\ Len(pMatches) = 3
    /\ Accepted(pMatches) = {1, 3}
    /\ Len(pBoxes) = 2

\* a coordinate string with a field that is no number, or with fewer than
\* four fields
Malformed(cs) ==
    \/ Len(split(cs)) < 4
    \/ \E k \in 1..Len(split(cs)) : parseFloat(trim(split(cs)[k])) = NaN

\* C11: every returned box comes from a match whose coordinate string has at
\* least four fields, all of them numbers; a match with a non-numeric field
\* or with fewer than four fields yields no box.
C11_MalformedDropped ==
    pDone =>
        LET ms == pMatches
            good == { i \in 1..Len(ms) : ~Malformed(ms[i].coords) }
        IN  /\ Len(pBoxes) <= Cardinality(good)
            /\ \A k \in 1..Len(pBoxes) :
                   \E i \in good :
                       /\ pBoxes[k].content = ms[i].content
                       /\ << pBoxes[k].x1, pBoxes[k].y1,
                             pBoxes[k].x2, pBoxes[k].y2 >>
                            = parseCoords(ms[i].coords)

\* number of closing <|/det|> markers of a text
CountEDET(t) == Cardinality({ k \in 1..Len(t) : t[k] = EDET })

\* the text ends inside a record: a <|ref|> follows its last <|/det|>
EndsInsideRecord(t) ==
    \E k \in 1..Len(t) :
        /\ t[k] = REF
        /\ \A j \in k..Len(t) : t[j] # EDET

\* C12: parsing a text cut off at any position returns a list (the call does
\* not fail), with at most one box per <|/det|> that has arrived, every box
\* carrying a label and four numbers: the record the text was cut in yields
\* none.
C12_TruncatedNoPartial ==
    pDone =>
        /\ Len(pBoxes) <= CountEDET(pText)
        /\ Len(pBoxes) <= Len(pMatches)
        /\ \A i \in 1..Len(pMatches) : pText[pMatches[i].matchEnd] = EDET
        /\ \A k \in 1..Len(pBoxes) :
               /\ pBoxes[k].x1 # NaN /\ pBoxes[k].y1 # NaN
               /\ pBoxes[k].x2 # NaN /\ pBoxes[k].y2 # NaN
               /\ pBoxes[k].isType \in BOOLEAN
               /\ pBoxes[k].isComplete \in BOOLEAN

\* a text with one whole record and a second one cut right before its
\* <|/det|>: one box
C12_Witness ==
    /\ pDone
    /\ EndsInsideRecord(pText)
    /\ Len(pText) >= 2
    /\ pText[Len(pText)] = "]" /\ pText[Len(pText) - 1] = "]"
    /\ CountEDET(pText) = 1
    /\ Len(pBoxes) = 1

RawLabel(t) == SubSeq(t, 2, SkipNot(t, 2, {EREF}) - 1)

\* the ten structural tags, as the claim lists them
TenTags ==
    { << "title" >>, << "sub_title" >>, << "text" >>, << "table" >>,
      << "image" >>, << "image_caption" >>, << "figure" >>, << "caption" >>,
      << "formula" >>, << "list" >> }

\* C14: the box of a record is a type box (isType) exactly when the record's
\* label, trimmed, is one of the ten structural tags; otherwise it is a text
\* box.
C14_TypeTagIffKnownLabel ==
    pDone =>
        /\ Len(pBoxes) = 1
        /\ pBoxes[1].isType = (trim(RawLabel(pText)) \in TenTags)

\* a tag written with spaces around it is a type box
C14_Witness ==
    /\ pDone
    /\ RawLabel(pText) = << " ", "list", " " >>
    /\ Len(pBoxes) = 1
    /\ pBoxes[1].isType
    /\ pBoxes[1].type = "list"

\* the labels that are keys of the colour table
ColorTableLabels == { << k >> : k \in DOMAIN TYPE_COLORS }

\* C15: a group drawn for an annotation whose label is no key of TYPE_COLORS
\* has the 'unknown' stroke #FF1493 and fill #00FF00, not the colour of a
\* known type.
C15_UnknownTagHighlighted ==
    \A k \in 1..Len(overlay) :
        overlay[k].label \notin ColorTableLabels =>
            /\ overlay[k].color = "#FF1493"
            /\ overlay[k].fill = "#00FF00"

\* the positions in the overlay of the groups the last renderBoxes call
\* appended, and the box each was drawn for
NewGroups == (Len(rCall.before.overlay) + 1)..Len(overlay)

BoxOfGroup(k) == pBoxes[overlay[k].index + 1]

\* C16: a group drawn in document mode is clickable only for a type box
\* that is complete and has text after it, and then its click copies that
\* text; a type box that is not complete is drawn dimmed and not clickable.
C16_DocumentClickability ==
    (rCall.called /\ rCall.promptType = "document") =>
        \A k \in NewGroups :
            LET g == overlay[k]
                b == BoxOfGroup(k)
            IN  /\ g.isClickable =>
                       /\ b.isType /\ b.isComplete /\ b.textContent # << >>
                       /\ g.copyText = b.textContent
                /\ (b.isType /\ ~b.isComplete) =>
                       (g.dimmed /\ ~g.isClickable)

\* one document-mode call on an open stream drew a title that is complete
\* and copies "FOO", and a text box that is not clickable
C16_Witness ==
    /\ rCall.called /\ rCall.promptType = "document" /\ ~pEnded
    /\ \E k \in NewGroups :
          /\ overlay[k].isClickable
          /\ overlay[k].copyText = << "FOO" >>
          /\ BoxOfGroup(k).isType /\ BoxOfGroup(k).isComplete
    /\ \E k \in NewGroups :
          ~BoxOfGroup(k).isType /\ ~overlay[k].isClickable

\* C17: in ocr mode the clickable groups are exactly those of the text boxes
\* and a click copies the label; with a prompt type other than ocr and
\* document no group is clickable.
C17_PlainTextClickability ==
    rCall.called =>
        \A k \in NewGroups :
            LET g == overlay[k]
                b == BoxOfGroup(k)
            IN  /\ rCall.promptType = "ocr" =>
                       /\ g.isClickable = ~b.isType
                       /\ (g.isClickable => g.copyText = b.content)
                /\ rCall.promptType \notin {"ocr", "document"} =>
                       (~g.isClickable /\ ~g.dimmed)

\* one ocr-mode call drew a type box that is not clickable and a text box
\* that copies its label
C17_Witness ==
    /\ rCall.called /\ rCall.promptType = "ocr"
    /\ \E k \in NewGroups :
          BoxOfGroup(k).isType /\ ~overlay[k].isClickable
    /\ \E k \in NewGroups :
          /\ ~BoxOfGroup(k).isType
          /\ overlay[k].isClickable
          /\ overlay[k].copyText = << "Hello" >>

\* C18: when performOCR starts its poll interval (the step from the image
\* load to the pending submission) the overlay is empty and the cursor is 0,
\* as its first lines left them, so that the first tick draws onto an empty
\* overlay from cursor 0.
C18_StartsFromEmptyOverlay ==
    [][(ocr.pc = "imageLoad" /\ ocr'.pc = "awaitOcr") =>
          (overlay = << >> /\ lastBoxCount = 0 /\ timers = {}
           /\ overlay' = << >> /\ lastBoxCount' = 0)]_vars

\* C19: the callback of a /progress fetch that failed changes nothing but
\* the set of pending fetches: overlay, viewBox, cursor, text panel, busy
\* flag, the invocation and its pending submission are as before, and the
\* interval is still active, so that the next tick polls again.
C19_FailedFetchIgnored ==
    [][\A p \in polls :
          (p \notin polls' /\ ~p.ok) =>
              /\ UNCHANGED << overlay, viewBox, lastBoxCount, resultsContent,
                              isProcessing, ocr, reply, srv, timers, stage,
                              currentResultText, currentRawTokens >>
              /\ (p.op = opCount /\ ocr.pc = "awaitOcr") =>
                     tokenPollInterval(opCount, ocr.w, ocr.h) \in timers']_vars

\* during polling, with a group already drawn, a fetch of the running
\* invocation has failed and its callback is about to run
C19_Witness ==
    /\ ocr.pc = "awaitOcr"
    /\ stage = "Polling"
    /\ Len(overlay) > 0
    /\ resultsContent.kind = "text"
    /\ \E p \in polls : ~p.ok /\ p.op = opCount

\* C20: the step that delivers a failed submission (failure result or
\* rejected invoke) empties the overlay, sets the cursor to 0, puts the
\* error in the text panel and submits nothing again; and as long as the
\* operation is the failed one the overlay stays empty and the cursor 0.
C20_FailureClearsOverlay ==
    /\ [][(ocr.pc = "awaitOcr" /\ reply.kind \in {"failure", "throw"}
           /\ ocr'.pc = "idle") =>
             /\ overlay' = << >> /\ viewBox' = << >> /\ lastBoxCount' = 0
             /\ resultsContent' = ErrorPanel
             /\ srv'.status = "idle" /\ reply'.kind = "none"
             /\ ~isProcessing']_vars
    /\ [](stage = "Failed" => (overlay = << >> /\ lastBoxCount = 0))

\* ------------------------------------------ full re-render (SpecProject)
\* the final render of performOCR (empty the overlay, cursor 0, renderBoxes)
\* made again and again on one complete stream of MaxProjRecs records whose
\* coordinates are drawn from ProjCoordTexts, inside and outside 0..999
MaxProjRecs == 1

ProjCoordTexts == { << "0" >>, << "1", "5", "0", "0" >> }

ProjCoords ==
    { a \o << "," >> \o b \o << "," >> \o c \o << ",", " " >> \o d :
        a \in ProjCoordTexts, b \in ProjCoordTexts,
        c \in ProjCoordTexts, d \in ProjCoordTexts }

ProjTexts ==
    { Flatten([k \in 1..MaxProjRecs |-> Rec(<< "title" >>, c)])
        \o Rec(<< "Hello" >>, Coords4) : c \in ProjCoords }

ProjDims == { << 100, 50 >>, << 200, 100 >>, << 3, 7 >> }

ProjectInit ==
    /\ ControllerInit
    /\ pText \in ProjTexts
    /\ pEnded = TRUE
    /\ pBoxes = << >>
    /\ pDone = FALSE
    /\ rCall = NoCall
    /\ pLog = << >>

projectRender ==
    \E d \in ProjDims, pt \in PromptTypes :
        LET before == [overlay |-> overlay, viewBox |-> viewBox,
                       lastBoxCount |-> lastBoxCount]
            dom == finalRender(before, pText, d[1], d[2], pt)
        IN  /\ overlay' = dom.overlay
            /\ viewBox' = dom.viewBox
            /\ lastBoxCount' = dom.lastBoxCount
            /\ pBoxes' = parseBoxesFromTokens(pText, TRUE)
            /\ pDone' = TRUE
            /\ rCall' = [called |-> TRUE, w |-> d[1], h |-> d[2],
                         promptType |-> pt, before |-> before]
            /\ UNCHANGED << pText, pEnded, pLog, currentImagePath,
                            currentResultText, currentRawTokens,
                            currentPromptType, isProcessing, resultsContent,
                            ocrPreviewSrc, procVars, envVars, ghostVars,
                            uiVars, mainProc >>

ProjectNext == projectRender

SpecProject == ProjectInit /\ [][ProjectNext]_vars

\* C22: every group of the overlay has the geometry (normalized / 999) *
\* dimension of its box (kept as numerators over 999), with no clamping, and
\* a re-render of the same boxes with twice the width and twice the height
\* doubles x, y, width and height of every group.
C22_ProjectionLinear ==
    /\ [](rCall.called =>
            /\ Len(overlay) = Len(pBoxes)
            /\ \A k \in 1..Len(overlay) :
                  /\ overlay[k].x = pBoxes[k].x1 * rCall.w
                  /\ overlay[k].y = pBoxes[k].y1 * rCall.h
                  /\ overlay[k].x + overlay[k].width = pBoxes[k].x2 * rCall.w
                  /\ overlay[k].y + overlay[k].height
                         = pBoxes[k].y2 * rCall.h)
    /\ [][(/\ rCall.called
           /\ rCall'.w = 2 * rCall.w
           /\ rCall'.h = 2 * rCall.h) =>
              /\ Len(overlay') = Len(overlay)
              /\ \A k \in 1..Len(overlay) :
                    /\ overlay'[k].x = 2 * overlay[k].x
                    /\ overlay'[k].y = 2 * overlay[k].y
                    /\ overlay'[k].width = 2 * overlay[k].width
                    /\ overlay'[k].height = 2 * overlay[k].height]_vars

\* a box reaching beyond 999 was drawn at 100 x 50 and then at 200 x 100
C22_Witness ==
    /\ rCall.called
    /\ rCall.w = 200 /\ rCall.h = 100
    /\ Len(rCall.before.overlay) = 2
    /\ rCall.before.overlay[1].w = 100
    /\ rCall.before.overlay[1].width = 1500 * 100
    /\ overlay[1].width = 1500 * 200
    /\ overlay[1].height = 1500 * 100

\* C23: a full re-render made with the same boxes, the same dimensions and
\* the same prompt type as the full re-render before it leaves the overlay
\* (groups with geometry and colours), the viewBox and the cursor as they
\* were.
C23_ReRenderIdempotent ==
    [][(/\ rCall.called
        /\ rCall'.w = rCall.w
        /\ rCall'.h = rCall.h
        /\ rCall'.promptType = rCall.promptType
        /\ pText' = pText) =>
           /\ overlay' = overlay
           /\ viewBox' = viewBox
           /\ lastBoxCount' = lastBoxCount]_vars

\* the same full re-render has been made twice on a stream of two records
C23_Witness ==
    /\ rCall.called
    /\ Len(overlay) = 2
    /\ rCall.before.overlay = overlay
    /\ rCall.before.lastBoxCount = lastBoxCount
    /\ lastBoxCount = 2

\* the labels of the text boxes of a raw text, joined by newlines
TextSpanLines(raw) ==
    LET bs == SelectSeq(parseBoxesFromTokens(raw, FALSE),
                        LAMBDA b : ~b.isType)
    IN  joinLines([k \in 1..Len(bs) |-> bs[k].content])

Cleared ==
    /\ overlay = << >>
    /\ lastBoxCount = 0
    /\ currentRawTokens = << >>
    /\ currentResultText = << >>
    /\ currentPromptType = NULL

\* the step starts performOCR, or a PDF or batch operation is running
NewOperation ==
    \/ opCount' # opCount
    \/ pdf # "idle" \/ pdf' # "idle"
    \/ batch # "idle" \/ batch' # "idle"

\* C24: once the image has been cleared, the overlay stays empty, the cursor
\* stays 0 and raw tokens, result text and prompt type stay empty until a
\* new operation is started, also when an OCR operation was in flight at
\* the time of the clear.
C24_ClearedUntilNewOperation ==
    [][(Cleared /\ ~NewOperation) => Cleared']_vars

\* the step applies a poll response of the running invocation
OwnPollStep == \E p \in polls : p.op = opCount /\ p \notin polls'

\* the step is the settlement of the running invocation
SettleStep == ocr.pc = "awaitOcr" /\ ocr'.pc = "idle"

\* C25: while an OCR operation is in flight (from its start to its
\* settlement), every step that changes the overlay or the render cursor is
\* a poll step or the settle step of that operation.
C25_OnlyOwnStepsWrite ==
    [][(/\ ocr.pc # "idle"
        /\ << overlay, lastBoxCount >>' # << overlay, lastBoxCount >>) =>
           (OwnPollStep \/ SettleStep)]_vars

\* C26: every group of the overlay was projected with the width and height
\* that the overlay's viewBox carries, so no two groups differ in their
\* target dimensions.
C26_OneProjectionPerOverlay ==
    \A k \in 1..Len(overlay) :
        /\ viewBox # << >>
        /\ overlay[k].w = viewBox[1]
        /\ overlay[k].h = viewBox[2]

\* C27: a step of one of loadModel's timers (a /progress fetch sent or its
\* callback run) leaves the overlay, the viewBox, the cursor and the results
\* panel unchanged, and a step of the token poll (fetch sent or callback
\* run) leaves the model progress bar, stage and percent unchanged.
C27_TimersShareNoState ==
    [][/\ (lm'.fetches # lm.fetches =>
              UNCHANGED << overlay, viewBox, lastBoxCount, resultsContent >>)
       /\ (polls' # polls => lm'.bar = lm.bar)]_vars

\* the token poll has drawn a group during an operation that was started
\* after the progress poll had shown the end of a model load
C27_Witness ==
    /\ lm.bar = [width |-> 100, stage |-> "complete", percent |-> 100]
    /\ lm.pc = "idle"
    /\ ocr.pc = "awaitOcr"
    /\ polls = {}
    /\ Len(overlay) = 1
    /\ resultsContent.kind = "text"

\* C28: every invocation of performOCR that has set the busy flag
\* eventually returns with the flag cleared, the backend answering every
\* submission it receives; this includes the invocations whose preview
\* image does not load.
C28_BusyEventuallyReleased ==
    (ocr.pc # "idle") ~> (ocr.pc = "idle" /\ ~isProcessing)

\* C29: every invocation of loadModel eventually returns with the busy flag
\* cleared, also when the load-model request fails or /progress cannot be
\* fetched.
C29_LoadModelReturns ==
    (lm.pc # "idle") ~> (lm.pc = "idle" /\ ~isProcessing)

\* C30: whenever loadModel is not running, neither its progress interval
\* nor its final-status interval is active; the step by which it returns
\* leaves both inactive; and the callback of a /progress fetch of the running
\* invocation that observed status 'loaded' or 'error' leaves the progress
\* interval inactive.
C30_LoadTimersStopped ==
    /\ [](lm.pc = "idle" => (~lm.pollInterval /\ ~lm.checkStatus))
    /\ [][/\ ((lm.pc # "idle" /\ lm'.pc = "idle") =>
                 (~lm'.pollInterval /\ ~lm'.checkStatus))
          /\ \A f \in lm.fetches :
                (/\ f \notin lm'.fetches
                 /\ f.n = lm.n
                 /\ f.ok
                 /\ f.status \in {"loaded", "error"}) =>
                    ~lm'.pollInterval]_vars

\* loadModel has returned after its progress poll showed the end of a
\* successful load
C30_Witness ==
    /\ lm.pc = "idle"
    /\ lm.n = 1
    /\ ~isProcessing
    /\ srv.status = "loaded"
    /\ lm.bar.stage = "complete"
    /\ ~lm.pollInterval
    /\ ~lm.checkStatus

\* C31: when loadModel returns, the Load Model button has been updated by
\* checkServerStatus: it is enabled with the text 'Load Model' or disabled
\* with the text 'Model Loaded', and it is not left disabled with the text
\* 'Loading Model...'.
C31_LoadButtonUpdatedOnReturn ==
    [][(lm.pc # "idle" /\ lm'.pc = "idle") =>
          /\ btn'.loadText \in {"Load Model", "Model Loaded"}
          /\ btn'.loadDisabled = (btn'.loadText = "Model Loaded")]_vars

\* C32: whenever the Run OCR button is enabled, an image is loaded and no
\* operation is processing.
C32_RunEnabledOnlyWhenIdle ==
    ~btn.ocrDisabled => (currentImagePath # NULL /\ ~isProcessing)

\* ------------------------------------------------ main process (SpecMain)
rendererVars == << globalVars, domVars, procVars, envVars, ghostVars,
                   harnessVars, uiVars >>

MainInit ==
    /\ RendererInit
    /\ HarnessIdle
    /\ mainProc \in { StartMain(d) : d \in BOOLEAN }

\* markAsReady: resolve() once, guarded by the closure flag
markAsReady(m) ==
    IF ~m.resolved
    THEN [m EXCEPT !.resolved = TRUE,
                   !.resolves = @ + 1,
                   !.promise = IF @ = "pending" THEN "resolved" ELSE @]
    ELSE m

\* stopPythonServer
stopPythonServer(m) ==
    IF m.pythonProcess # NULL THEN [m EXCEPT !.pythonProcess = NULL] ELSE m

\* app.whenReady().then: startPythonServer() runs its executor up to
\* `setTimeout(checkWithRetry, 2000)`, or rejects when the script is missing
whenReady ==
    /\ mainProc.app = "launching"
    /\ \E exists \in BOOLEAN :
          mainProc' =
              IF ~exists
              THEN [mainProc EXCEPT !.app = "starting",
                                    !.promise = "rejected",
                                    !.rejects = @ + 1]
              ELSE [mainProc EXCEPT !.app = "starting",
                                    !.promise = "pending",
                                    !.pythonProcess = "running",
                                    !.elapsed = 0,
                                    !.retry = "scheduled",
                                    !.due = initialDelay]
    /\ UNCHANGED rendererVars

\* a 'data' event of the child's stdout or stderr
pythonOutput ==
    /\ mainProc.pythonProcess # NULL
    /\ mainProc.app # "exited"
    /\ \E ro \in BOOLEAN :
          mainProc' =
              IF ro
              THEN markAsReady([mainProc EXCEPT !.seen = OutputReady])
              ELSE [mainProc EXCEPT !.seen = OutputOther]
    /\ UNCHANGED rendererVars

\* Date.now() advances while a timer or a request of checkWithRetry is
\* pending
tick ==
    /\ mainProc.retry # "none"
    /\ mainProc.app # "exited"
    /\ mainProc.elapsed < MaxElapsed
    /\ mainProc' = [mainProc EXCEPT !.elapsed = @ + 1]
    /\ UNCHANGED rendererVars

\* checkWithRetry called by its timer, up to `await checkServerHealth()`
checkWithRetry_fire ==
    /\ mainProc.retry = "scheduled"
    /\ mainProc.elapsed >= mainProc.due
    /\ mainProc.app # "exited"
    /\ mainProc' =
          IF mainProc.resolved
          THEN [mainProc EXCEPT !.retry = "none"]
          ELSE IF mainProc.elapsed >= maxWaitTime
          THEN [mainProc EXCEPT !.retry = "none",
                                !.resolved = TRUE,
                                !.rejects = @ + 1,
                                !.promise = IF @ = "pending" THEN "rejected"
                                            ELSE @]
          ELSE [mainProc EXCEPT !.retry = "inflight"]
    /\ UNCHANGED rendererVars

\* checkWithRetry after the await: checkServerHealth returned (its value,
\* response.data.status === 'ok', is not used) or threw
checkWithRetry_resume ==
    /\ mainProc.retry = "inflight"
    /\ mainProc.app # "exited"
    /\ \E r \in HealthReplies :
          mainProc' =
              IF r.text = "throw"
              THEN [mainProc EXCEPT !.seen = r,
                                    !.retry = "scheduled",
                                    !.due = mainProc.elapsed + checkInterval]
              ELSE markAsReady([mainProc EXCEPT !.seen = r,
                                                !.retry = "none"])
    /\ UNCHANGED rendererVars

\* the continuation of `await startPythonServer()`: createWindow(), or the
\* catch block (showErrorBox, app.quit() with its 'before-quit' handler);
\* the 'activate' handler is registered on both paths
startup_resume ==
    /\ mainProc.app = "starting"
    /\ mainProc.promise \in { "resolved", "rejected" }
    /\ mainProc' =
          IF mainProc.promise = "resolved"
          THEN [mainProc EXCEPT !.app = "running",
                                !.mainWindow = "window",
                                !.activate = TRUE]
          ELSE [stopPythonServer(mainProc) EXCEPT !.app = "quitting",
                                                  !.activate = TRUE]
    /\ UNCHANGED rendererVars

\* the 'activate' event (macOS) while the process lives
activate ==
    /\ mainProc.activate
    /\ mainProc.darwin
    /\ mainProc.app \in { "running", "quitting" }
    /\ mainProc' = IF mainProc.mainWindow = NULL
                   THEN [mainProc EXCEPT !.mainWindow = "window"]
                   ELSE mainProc
    /\ UNCHANGED rendererVars

\* the window is closed: 'closed' and 'window-all-closed'
windowClosed ==
    /\ mainProc.mainWindow # NULL
    /\ mainProc.app # "exited"
    /\ mainProc' =
          [stopPythonServer(mainProc) EXCEPT
              !.mainWindow = NULL,
              !.app = IF mainProc.darwin THEN @ ELSE "quitting"]
    /\ UNCHANGED rendererVars

\* the process terminates after app.quit()
appExit ==
    /\ mainProc.app = "quitting"
    /\ mainProc' = [mainProc EXCEPT !.app = "exited"]
    /\ UNCHANGED rendererVars

MainNext ==
    \/ whenReady
    \/ pythonOutput
    \/ tick
    \/ checkWithRetry_fire
    \/ checkWithRetry_resume
    \/ startup_resume
    \/ activate
    \/ windowClosed
    \/ appExit

SpecMain == MainInit /\ [][MainNext]_vars


\* C33: the callback of a token-poll response whose status is not
\* 'processing' leaves the progress text, the overlay, the viewBox, the
\* cursor and the text panel unchanged, and the callback of a 'processing'
\* response with an empty raw_token_stream leaves the overlay, the viewBox,
\* the cursor and the text panel unchanged.
C33_OnlyProcessingResponsesWrite ==
    [][\A p \in polls :
          p \notin polls' =>
              /\ (p.status # "processing" =>
                     UNCHANGED << progressStatus, overlay, viewBox,
                                  lastBoxCount, resultsContent >>)
              /\ ((p.status = "processing" /\ p.raw_token_stream = << >>) =>
                     UNCHANGED << overlay, viewBox, lastBoxCount,
                                  resultsContent >>)]_vars

\* a 'processing' response with a character count and no stream has been
\* applied: the progress text shows the count, nothing was drawn or shown
C33_Witness ==
    /\ ocr.pc = "awaitOcr"
    /\ polls = {}
    /\ progressStatus = ProgressText("characters generated", 7)
    /\ overlay = << >>
    /\ lastBoxCount = 0
    /\ resultsContent = EmptyPanel

\* label, kind and box of every annotation of a parse result, in order
Annotations(boxes) ==
    [k \in 1..Len(boxes) |->
        [content |-> boxes[k].content, isType |-> boxes[k].isType,
         type |-> boxes[k].type,
         x1 |-> boxes[k].x1, y1 |-> boxes[k].y1,
         x2 |-> boxes[k].x2, y2 |-> boxes[k].y2]]

\* C34: for every raw text t and every prefix p of t, the annotations of p
\* (label, kind and box, in order) are a prefix of the annotations of t,
\* whatever the completion flag of either call.
C34_ParseMonotoneUnderAppend ==
    pDone =>
        \A k \in 0..Len(pText), e \in BOOLEAN :
            IsPrefix(Annotations(parseBoxesFromTokens(SubSeq(pText, 1, k), e)),
                     Annotations(pBoxes))

\* a text of two annotations one of whose proper prefixes has exactly one
C34_Witness ==
    /\ pDone
    /\ Len(pBoxes) = 2
    /\ \E k \in 0..(Len(pText) - 1) :
          Len(parseBoxesFromTokens(SubSeq(pText, 1, k), FALSE)) = 1

\* the results the success path stores for an image: the raw stream of its
\* document (or none) and one of the texts shown for it
StoredFrom(img, raw, text) ==
    LET s == Flatten(docOf(img))
    IN  /\ raw \in { << >>, s }
        /\ text \in { extractTextFromTokens(s), resultOf(s), s }

\* C35: the results stored by a successful OCR (the step that also shows the
\* copy and view buttons) were produced from the image that currentImagePath
\* holds at that moment.
C35_ResultsOfCurrentImage ==
    [][(SettleStep /\ reply.kind = "success") =>
          /\ currentImagePath' # NULL
          /\ StoredFrom(currentImagePath', currentRawTokens',
                        currentResultText')]_vars

\* C36: startPythonServer settles exactly once: resolve is called at most
\* once, reject at most once and never both, and once the promise has
\* settled checkWithRetry schedules no further retry.
C36_SettlesOnce ==
    /\ [](mainProc.resolves + mainProc.rejects <= 1)
    /\ [][mainProc.promise \in { "resolved", "rejected" } =>
             ~(mainProc.retry # "scheduled" /\ mainProc'.retry = "scheduled")]_vars

\* C37: the step that marks the server ready handles an output chunk that
\* contains 'Running on' or a /health response whose status is 'ok'.
C37_ReadyOnlyOnOkOrRunningOn ==
    [][(mainProc.promise = "pending" /\ mainProc'.promise = "resolved") =>
          mainProc'.seen \in { OutputReady, [kind |-> "health", text |-> "ok"] }]_vars

\* C38: a main window exists only when startPythonServer resolved; after a
\* failed startup there is never one, also after 'activate'.
C38_WindowOnlyAfterReady ==
    mainProc.mainWindow # NULL => mainProc.promise = "resolved"

====
